---- MODULE Spec2Model ----
(***************************************************************************)
(* Model of the terminal-flow-bid strategy engines and their persistence   *)
(* substrate.                                                              *)
(*                                                                         *)
(*   strategy.ts     (src/unnamed/part_005, second half) bid state machine *)
(*   persistence.ts  (src/unnamed/part_003, last part)   durable snapshot  *)
(*   server.ts       (src/src/server.ts)                 boot / restore    *)
(*   exit-strategy.ts (src/src/exit-strategy.ts)         tranche selling   *)
(*   trading/engine.ts (src/src/trading/engine.ts)       trading ticks     *)
(*   trading/strategies (dca.ts, mean-reversion.ts)      the evaluators    *)
(*   trading/price-tracker.ts (src/unnamed/part_007)     shared pollers    *)
(*                                                                         *)
(* Node runs one event loop: every action below is one run-to-completion   *)
(* slice of a handler, from one await (or timer) to the next.  Text is a   *)
(* sequence of chunks; a chunk is one character (BT, the backtick; QT, the  *)
(* double quote; BS, the backslash; NL, the newline; a digit) or a word    *)
(* that contains none of these characters.                                 *)
(***************************************************************************)
EXTENDS Integers, Sequences, FiniteSets, TLC

VARIABLES
    up,          \* the server process is running
    heap,        \* StrategyState objects created by this process, by index
    strategies,  \* the Map strategies: heap indexes in key insertion order
    loops,       \* per heap index: the runStrategy invocation driving it
    block,       \* the chain's current block number
    dirty,       \* persistence.ts dirty
    timer,       \* persistence.ts timer is set
    disk,        \* data/state.md: <<>> when missing, else <<document>>
    chain,       \* bids the auction contract has accepted, per auction
    runs,        \* runStrategy calls made so far
    crashes,     \* process crashes so far
    faults,      \* provider calls that have failed so far
    saved,       \* what the collectors returned at the last successful save
    preCrash,    \* what the collectors would have returned at the last crash
    pending,     \* the setTimeout callbacks of markDirty that have not run yet
    lastSave,    \* how this process's latest saveState ended: "none", "ok", "failed"
    exit,        \* the ExitStrategyState of one auction, status "none" before it is created
    eticks,      \* the invocations of the exit interval's callback, in order of firing
    wallet,      \* the wallet's on-chain balance of the held token
    esells,      \* the swaps the exit engine has started, in order of start
    trade,       \* the TradingStrategyState of one strategy, status "none" before it is started
    tjobs,       \* its ticks and the sell and liquidate calls on it, in order of start
    sub,         \* one call of bid.ts submitBid: its locals and position
    grad,        \* the graduation monitor: processedGraduations, its polls, one auction
    pol,         \* the price poller of one token and the two trading strategies on it
    sched        \* one call of readiness.ts scheduleBid: its interval and its polls

bidVars == <<up, heap, strategies, loops, block, dirty, timer, disk, chain,
             runs, crashes, faults, saved, preCrash, pending, lastSave>>

exitVars == <<exit, eticks, wallet, esells>>

tradeVars == <<trade, tjobs>>

auxVars == <<sub, grad, pol, sched>>

\* what the bid engine and the snapshot leave alone
otherVars == <<exitVars, tradeVars, auxVars>>

vars == <<up, heap, strategies, loops, block, dirty, timer, disk, chain,
          runs, crashes, faults, saved, preCrash, pending, lastSave,
          exit, eticks, wallet, esells, trade, tjobs, sub, grad, pol, sched>>

-----------------------------------------------------------------------------
(* The characters that matter to the snapshot's format *)

BT == "BT"
QT == "QT"
BS == "BS"
NL == "NL"

(* Bounds of the model *)

MaxRuns == 1
\* calls of runStrategy where two strategies are looked at
MaxLoops == 2
MaxPolls == 1
MaxCrashes == 1
MaxFaults == 1
MaxAlign == 1

(* Program constants *)

BID_WINDOW == 15
MAX_BID_ATTEMPTS == 2
LOG_CAP == 50
DEFAULT_DURATION == 270

(* The environment: one auction, its block range as the provider reports   *)
(* it, the prices the provider may report and the parameters a user posts. *)

AuctionStart == 2
AuctionLen == 20
AuctionEnd == AuctionStart + AuctionLen

Addrs == {<<"0xA">>}

\* with a second auction
AllAddrs == Addrs \cup {<<"0xB">>}

Auctions == { [startBlock |-> AuctionStart, endBlock |-> AuctionEnd],
              [startBlock |-> 0, endBlock |-> AuctionEnd] }

Heights == { AuctionStart, AuctionEnd - BID_WINDOW - 1,
             AuctionEnd - BID_WINDOW, AuctionEnd }

Params == { [minFdvUsd |-> 10000, maxFdvUsd |-> 50000],
            [minFdvUsd |-> 10000, maxFdvUsd |-> 10000] }

\* Math.round(q96ToFdv(clearingQ96, auctionInfo)) of a poll; <<>> when the
\* auction reports no clearing price (clearingQ96 <= 0)
Clearings == { <<>>, <<11000>> }

\* err.message of a failed provider call
ErrMsgs == { <<"timeout">>, <<BT, BT, BT>> }

\* what the providers may answer: the full market, and a market without bids
\* whose provider quotes its failures in a code fence
Market == [clearings |-> Clearings, errs |-> ErrMsgs]

QuietMarket == [clearings |-> { <<>> }, errs |-> { <<BT, BT, BT>> }]

QuietParams == { [minFdvUsd |-> 10000, maxFdvUsd |-> 50000] }

-----------------------------------------------------------------------------
(* Arithmetic of the bidding phase *)

\* Math.ceil(x * pct / 100) for a non-negative integer x
CeilPct(x, pct) == (x * pct + 99) \div 100

Min(a, b) == IF a <= b THEN a ELSE b

\* runStrategy: "Calculate target FDV"
TargetFdv(impliedFdv, minFdvUsd, maxFdvUsd) ==
    IF impliedFdv > 0
    THEN Min(CeilPct(impliedFdv, 115), maxFdvUsd)
    ELSE CeilPct(minFdvUsd, 105)

\* placeBid: "Bump FDV 20% for retry"
BumpedFdv(currentFdv, maxFdvUsd) == Min(CeilPct(currentFdv, 120), maxFdvUsd)

\* bid.ts submitBid: the FDV after k tick-alignment bumps of 15%
RECURSIVE AlignedFdv(_, _)
AlignedFdv(fdv, k) == IF k = 0 THEN fdv ELSE AlignedFdv(CeilPct(fdv, 115), k - 1)

\* runStrategy: "Transition to bidding when <= 15 blocks remain"
InBidWindowAlways(blocksLeft) == TRUE

InBidWindow(blocksLeft) == blocksLeft <= BID_WINDOW

\* runStrategy: the bidding loop's condition
BidLoopCondOffByOne(status, bidAttempts, maxBidAttempts) ==
    status = "bidding" /\ bidAttempts <= maxBidAttempts

BidLoopCond(status, bidAttempts, maxBidAttempts) ==
    status = "bidding" /\ bidAttempts < maxBidAttempts

\* runStrategy: "if (ok) { state.status = done; ...; break }"
StopsAfterBidNever(ok) == FALSE

StopsAfterBid(ok) == ok

\* runStrategy: endBlock = parseInt(String(auction.endBlock || startBlock + 270))
EndBlockOf(auction) ==
    IF auction.endBlock # 0 THEN auction.endBlock
    ELSE auction.startBlock + DEFAULT_DURATION

\* addLog: push, keep the last 50 entries
AddLog(log, type, message) ==
    LET l == Append(log, [type |-> type, message |-> message])
    IN  IF Len(l) > LOG_CAP THEN Tail(l) ELSE l

-----------------------------------------------------------------------------
(* The strategies map *)

RECURSIVE KeyIndex(_, _, _)
\* position of the key addr in the map m, 0 when absent
KeyIndex(m, h, addr) ==
    IF m = <<>> THEN 0
    ELSE IF h[m[Len(m)]].auctionAddress = addr THEN Len(m)
    ELSE KeyIndex(SubSeq(m, 1, Len(m) - 1), h, addr)

\* strategies.set(addr, heap[i]): a known key keeps its place in the order
MapSet(m, h, addr, i) ==
    LET k == KeyIndex(m, h, addr)
    IN  IF k = 0 THEN Append(m, i) ELSE [m EXCEPT ![k] = i]

\* the "Bid Strategies" collector: Array.from(strategies.values())
Collect(m, h) == [k \in 1..Len(m) |-> h[m[k]]]

-----------------------------------------------------------------------------
(* persistence.ts: markDirty *)

ArmAlways(t, p) == p + 1

\* markDirty: if (!timer) timer = setTimeout(...)
Arm(t, p) == IF t THEN p ELSE p + 1

MarkDirty ==
    /\ dirty' = TRUE
    /\ timer' = TRUE
    /\ pending' = Arm(timer, pending)
    /\ UNCHANGED lastSave

NoMark == UNCHANGED <<dirty, timer, pending, lastSave>>

NewLoop ==
    [pc |-> "getAuction", startBlock |-> 0, endBlock |-> 0, bidAttempts |-> 0,
     polls |-> 0,
     \* history of this invocation, kept for the properties only
     calls |-> <<>>, iters |-> 0, entered |-> <<>>, cancelSeen |-> "no",
     lateBid |-> FALSE, endedWatching |-> FALSE]

NoLoop == [NewLoop EXCEPT !.pc = "none"]

\* no exit strategy has been created for the auction
NoExit ==
    [status |-> "none", entryFdv |-> 0, initialBalance |-> 0,
     currentBalance |-> 0, currentFdv |-> 0, currentMultiple |-> 0,
     profileName |-> "none", tranches |-> <<>>, totalUsdcRealized |-> 0,
     log |-> <<>>,
     \* the interval of pollAndExecute is set
     interval |-> FALSE,
     \* the stopLossMultiple the caller asked for, 0 when none
     stopLossMultiple |-> 0,
     \* kept for the properties only: a callback that went through the
     \* tranche loop had observed a multiple below stopLossMultiple
     belowStop |-> FALSE]

\* getPrice: the tracker has no price yet
NoPrice == 0

\* the number n as a fraction
RInt(n) == <<n, 1>>

NoLast ==
    [price |-> NoPrice, tokenBalance |-> 0, avgEntryPrice |-> RInt(0),
     totalInvested |-> 0, realized |-> RInt(0), unrealized |-> 0,
     fired |-> "none", evaluated |-> FALSE, side |-> "none"]

\* state.params: the fields of DcaParams, TwapParams and MeanReversionParams,
\* each 0 in a strategy of another type
NoParams ==
    [amountPerBuy |-> 0, intervalMs |-> 0, totalBudget |-> 0, lastBuyTime |-> 0,
     chunks |-> 0, chunkSize |-> 0, chunkInterval |-> 0, chunksExecuted |-> 0,
     startTime |-> 0, lastChunkTime |-> 0,
     amountPerTrade |-> 0, buyThresholdPct |-> 0, sellThresholdPct |-> 0,
     cooldownMs |-> 0, lastTradeTime |-> 0]

\* Date.now() when the process starts, in units of a strategy's interval
StartClock == 1

\* no trading strategy has been started
NoTrade ==
    [status |-> "none",
     position |-> [tokenBalance |-> 0, avgEntryPrice |-> RInt(0),
                   totalInvested |-> 0, totalRealized |-> 0],
     pnl |-> [realized |-> RInt(0), unrealized |-> 0],
     riskLimits |-> [maxPositionUsdc |-> 0, stopLossPercent |-> 0,
                     maxDrawdownPercent |-> 0],
     trades |-> <<>>, log |-> <<>>,
     \* the strategy is in the Map tradingStrategies
     inMap |-> FALSE,
     \* strategyTimers holds an interval for the strategy
     timer |-> FALSE,
     \* kept for the properties only: what the latest tick saw and did,
     \* that the stop-loss branch set the status, and that an evaluator ran
     \* after it
     last |-> NoLast, byStopLoss |-> FALSE, evalAfterStop |-> FALSE,
     \* calls of the engine's API on the strategy so far
     calls |-> 0,
     \* type "any" is a strategy whose evaluator is an arbitrary EvaluateFn
     type |-> "none", params |-> NoParams,
     \* the latest value Date.now() returned to the strategy's code
     clock |-> StartClock,
     \* price-tracker.ts: refCount of the trackers entry of the strategy's
     \* token, 0 when the Map has no entry (then no poller interval runs)
     refCount |-> 0,
     \* kept for the properties only: the buy signals an evaluator recorded
     \* in params, and that twapEvaluate set the status to done
     marked |-> 0, doneByEvaluator |-> FALSE]

\* no call of submitBid yet.  Prices are written as the FDV they stand for.
NoSub ==
    [pc |-> "idle", maxFdvUsd |-> 0, bidFdv |-> 0, attempt |-> 0,
     floorPrice |-> 0, clearingPrice |-> 0, referencePrice |-> 0,
     aligned |-> 0, steps |-> 0,
     \* kept for the properties and the environment only: the auction's tick
     \* spacing, and the aligned price of the bid transaction that was sent
     spacing |-> 1, sent |-> <<>>]

\* the graduation monitor after startGraduationMonitor: nothing processed,
\* no poll in flight; the auction of a bid strategy with an exit profile is
\* not graduated and the wallet holds none of its tokens
NoGrad ==
    [processed |-> FALSE, polls |-> <<>>, hasExit |-> FALSE,
     isGraduated |-> FALSE, entryFdv |-> 0, tokenBalance |-> 0,
     \* kept for the properties and the bounds only
     started |-> <<>>, faults |-> 0]

\* the trading engine's Maps and the price tracker's entry for one token,
\* before boot
NoPol ==
    [booted |-> FALSE, refCount |-> 0,
     s |-> [i \in 1..2 |-> [status |-> "none", inMap |-> FALSE, timer |-> FALSE]]]

\* no call of scheduleBid yet
NoSched ==
    [pc |-> "idle", startBlock |-> 0, height |-> 0, interval |-> FALSE,
     polls |-> <<>>,
     \* kept for the properties only: the calls of submitBid
     submits |-> 0]

Init ==
    /\ up = TRUE
    /\ heap = <<>>
    /\ strategies = <<>>
    /\ loops = <<>>
    /\ block = AuctionStart - 1
    /\ dirty = FALSE
    /\ timer = FALSE
    /\ disk = <<>>
    /\ chain = [a \in AllAddrs |-> 0]
    /\ runs = 0
    /\ crashes = 0
    /\ faults = 0
    /\ saved = <<>>
    /\ preCrash = <<>>
    /\ pending = 0
    /\ lastSave = "none"
    /\ exit = NoExit
    /\ eticks = <<>>
    /\ wallet = 0
    /\ esells = <<>>
    /\ trade = NoTrade
    /\ tjobs = <<>>
    /\ sub = NoSub
    /\ grad = NoGrad
    /\ pol = NoPol
    /\ sched = NoSched

-----------------------------------------------------------------------------
(* strategy.ts: runStrategy, between two awaits *)

Boundary(l) ==
    [l EXCEPT !.cancelSeen = IF @ = "pending" THEN "boundary" ELSE @]

Ended(l) == [Boundary(l) EXCEPT !.pc = "ended"]

FailSilent(s, l, msg) == [s |-> s, l |-> [l EXCEPT !.pc = "threw"], mark |-> FALSE]

\* the catch around the whole of runStrategy
Fail(s, l, msg) ==
    [s |-> [s EXCEPT !.status = "failed",
                     !.log = AddLog(@, "error", <<"Strategy failed: ">> \o msg)],
     l |-> [l EXCEPT !.pc = "threw"],
     mark |-> TRUE]

\* "if (state.status === done) return; state.status = watching; ..." and the
\* first evaluation of the watching loop's condition, up to its first poll
EnterWatching(s, l) ==
    IF s.status = "done"
    THEN [s |-> s, l |-> Ended(l), mark |-> FALSE]
    ELSE [s |-> [s EXCEPT !.status = "watching",
                          !.log = AddLog(@, "info", <<"Auction started">>)],
          l |-> [Boundary(l) EXCEPT !.pc = "watchPoll"],
          mark |-> TRUE]

\* after the bidding loop: "If we exhausted attempts without a successful bid"
AfterBidLoop(s, l) ==
    IF s.status = "bidding"
    THEN [s |-> [s EXCEPT !.status = "done",
                          !.log = AddLog(@, "error", <<"Strategy ended">>)],
          l |-> Ended(l), mark |-> TRUE]
    ELSE [s |-> s, l |-> Ended(l), mark |-> FALSE]

\* one evaluation of the bidding loop's condition
BidLoop(s, l) ==
    IF BidLoopCond(s.status, l.bidAttempts, s.maxBidAttempts)
    THEN [s |-> s,
          l |-> [Boundary(l) EXCEPT !.pc = "bidPoll", !.iters = @ + 1],
          mark |-> FALSE]
    ELSE AfterBidLoop(s, l)

\* after the watching loop: "if (state.status === done) return;
\* let bidAttempts = 0; while (...)"
AfterWatch(s, l) ==
    IF s.status = "done"
    THEN [s |-> s, l |-> Ended(l), mark |-> FALSE]
    ELSE BidLoop(s, [l EXCEPT !.bidAttempts = 0])

\* the effect of one slice on object i
Apply(i, r, marked) ==
    /\ heap' = [heap EXCEPT ![i] = r.s]
    /\ loops' = [loops EXCEPT ![i] = r.l]
    /\ IF marked \/ r.mark THEN MarkDirty ELSE NoMark

Quiet == UNCHANGED <<up, strategies, block, disk, chain, runs, crashes,
                     saved, preCrash>>

\* a provider call fails with the message m
Fault(m) == faults < MaxFaults /\ faults' = faults + 1

NoFault == UNCHANGED faults

NewState(a, p) ==
    [auctionAddress |-> a, status |-> "waiting",
     minFdvUsd |-> p.minFdvUsd, maxFdvUsd |-> p.maxFdvUsd,
     currentFdv |-> p.minFdvUsd, impliedFdv |-> 0, bidsPlaced |-> 0,
     maxBidAttempts |-> MAX_BID_ATTEMPTS, lastBidFdv |-> <<>>,
     log |-> AddLog(<<>>, "info", <<"Strategy started">>)]

\* POST /api/strategy: runStrategy up to its first await, as one of at
\* most max calls
RunStrategyWithin(a, p, max) ==
    /\ up /\ runs < max
    /\ heap' = Append(heap, NewState(a, p))
    /\ strategies' = MapSet(strategies, heap', a, Len(heap'))
    /\ loops' = Append(loops, NewLoop)
    /\ MarkDirty
    /\ runs' = runs + 1
    /\ UNCHANGED <<up, block, disk, chain, crashes, faults, saved, preCrash>>

RunStrategy(a, p) == RunStrategyWithin(a, p, MaxRuns)

\* getAuction answered (or failed)
GetAuctionDone(i, env) ==
    /\ up /\ i \in DOMAIN loops /\ loops[i].pc = "getAuction"
    /\ \/ \E m \in env.errs : Fault(m) /\ Apply(i, Fail(heap[i], loops[i], m), FALSE)
       \/ \E auction \in Auctions :
            /\ NoFault
            /\ IF auction.startBlock = 0
               THEN Apply(i, Fail(heap[i], loops[i], <<"No startBlock">>), FALSE)
               ELSE Apply(i, [s |-> heap[i],
                              l |-> [loops[i] EXCEPT
                                       !.pc = "getBlock",
                                       !.startBlock = auction.startBlock,
                                       !.endBlock = EndBlockOf(auction)],
                              mark |-> FALSE], FALSE)
    /\ Quiet

\* the first getCurrentBlock answered (or failed)
GetBlockDone(i, env) ==
    /\ up /\ i \in DOMAIN loops /\ loops[i].pc = "getBlock"
    /\ \/ \E m \in env.errs : Fault(m) /\ Apply(i, Fail(heap[i], loops[i], m), FALSE)
       \/ /\ NoFault
          /\ IF block < loops[i].startBlock
             THEN Apply(i, [s |-> [heap[i] EXCEPT
                                     !.log = AddLog(@, "info", <<"Waiting for start block">>)],
                            l |-> [loops[i] EXCEPT !.pc = "waiting"],
                            mark |-> FALSE], FALSE)
             ELSE Apply(i, EnterWatching(heap[i], loops[i]), FALSE)
    /\ Quiet

\* the waiting phase's interval fires
WaitTick(i) ==
    /\ up /\ i \in DOMAIN loops /\ loops[i].pc = "waiting"
    /\ IF heap[i].status = "done"
       THEN Apply(i, EnterWatching(heap[i], loops[i]), FALSE)
       ELSE /\ loops[i].polls < MaxPolls
            /\ Apply(i, [s |-> heap[i],
                         l |-> [Boundary(loops[i]) EXCEPT !.pc = "waitPoll",
                                                          !.polls = @ + 1],
                         mark |-> FALSE], FALSE)
    /\ NoFault
    /\ Quiet

\* the waiting phase's getCurrentBlock answered (or failed)
WaitPollDone(i) ==
    /\ up /\ i \in DOMAIN loops /\ loops[i].pc = "waitPoll"
    /\ \/ /\ faults < MaxFaults /\ faults' = faults + 1
          /\ Apply(i, [s |-> heap[i], l |-> [loops[i] EXCEPT !.pc = "waiting"],
                       mark |-> FALSE], FALSE)
       \/ /\ NoFault
          /\ IF block >= loops[i].startBlock
             THEN Apply(i, EnterWatching(heap[i], loops[i]), FALSE)
             ELSE Apply(i, [s |-> heap[i], l |-> [loops[i] EXCEPT !.pc = "waiting"],
                            mark |-> FALSE], FALSE)
    /\ Quiet

\* state.impliedFdv after a poll that reported the clearing price c
Implied(s, c) == IF c = <<>> THEN s.impliedFdv ELSE c[1]

\* the watching phase's Promise.all answered (or failed)
WatchPollDone(i, env) ==
    /\ up /\ i \in DOMAIN loops /\ loops[i].pc = "watchPoll"
    /\ LET s == heap[i]
           l == loops[i]
       IN  \/ \E m \in env.errs :
                Fault(m) /\
                Apply(i, [s |-> [s EXCEPT !.log = AddLog(@, "error", <<"Watch error: ">> \o m)],
                          l |-> [l EXCEPT !.pc = "watchSleep"],
                          mark |-> FALSE], FALSE)
           \/ \E c \in env.clearings :
                NoFault /\
                IF block >= l.endBlock
                THEN Apply(i, AfterWatch(
                         [s EXCEPT !.status = "done",
                                   !.log = AddLog(@, "info", <<"Auction ended before bid window">>)],
                         [l EXCEPT !.endedWatching = TRUE]), TRUE)
                ELSE LET s1 == [s EXCEPT !.impliedFdv = Implied(s, c),
                                         !.log = AddLog(@, "info", <<"Watching">>)]
                     IN  IF InBidWindow(l.endBlock - block)
                         THEN Apply(i, AfterWatch(
                                  [s1 EXCEPT !.status = "bidding",
                                             !.log = AddLog(@, "info", <<"Entering bid window">>)],
                                  [l EXCEPT !.entered = <<block>>]), TRUE)
                         ELSE Apply(i, [s |-> s1,
                                        l |-> [l EXCEPT !.pc = "watchSleep"],
                                        mark |-> FALSE], FALSE)
    /\ Quiet

\* the watching phase's sleep (10 s, or 5 s after an error) is over
WatchWake(i) ==
    /\ up /\ i \in DOMAIN loops /\ loops[i].pc = "watchSleep"
    /\ IF heap[i].status = "watching"
       THEN /\ loops[i].polls < MaxPolls
            /\ Apply(i, [s |-> heap[i],
                         l |-> [Boundary(loops[i]) EXCEPT !.pc = "watchPoll",
                                                          !.polls = @ + 1],
                         mark |-> FALSE], FALSE)
       ELSE Apply(i, AfterWatch(heap[i], loops[i]), FALSE)
    /\ NoFault
    /\ Quiet

\* the bidding phase's Promise.all answered (or failed); on an answer the
\* target is computed and placeBid called, up to its await of submitBid
BidPollDone(i, env) ==
    /\ up /\ i \in DOMAIN loops /\ loops[i].pc = "bidPoll"
    /\ LET s == heap[i]
           l == loops[i]
       IN  \/ \E m \in env.errs :
                LET s1 == [s EXCEPT !.log = AddLog(@, "error", <<"Bid error: ">> \o m)]
                    l1 == [l EXCEPT !.bidAttempts = @ + 1]
                IN  Fault(m) /\
                    IF l1.bidAttempts < s.maxBidAttempts
                    THEN Apply(i, [s |-> s1, l |-> [l1 EXCEPT !.pc = "bidSleep"],
                                   mark |-> FALSE], FALSE)
                    ELSE Apply(i, BidLoop(s1, l1), FALSE)
           \/ \E c \in env.clearings :
                NoFault /\
                IF block >= l.endBlock
                THEN Apply(i, AfterBidLoop(
                         [s EXCEPT !.status = "done",
                                   !.log = AddLog(@, "info", <<"Auction ended">>)], l), TRUE)
                ELSE LET implied == Implied(s, c)
                         targetFdv == TargetFdv(implied, s.minFdvUsd, s.maxFdvUsd)
                     IN  Apply(i,
                           [s |-> [s EXCEPT
                                     !.impliedFdv = implied,
                                     !.currentFdv = targetFdv,
                                     !.log = AddLog(AddLog(@, "info", <<"Bidding attempt">>),
                                                    "bid", <<"Bidding">>)],
                            l |-> [l EXCEPT
                                     !.pc = "submit",
                                     !.calls = Append(@, [target |-> targetFdv,
                                                          outcome |-> "pending"]),
                                     !.lateBid = @ \/ l.cancelSeen = "boundary"],
                            mark |-> FALSE], FALSE)
    /\ Quiet

\* what follows placeBid in the loop body when it returned false
AfterRejectedBid(s, l, marked) ==
    IF s.status = "done"
    THEN LET r == AfterBidLoop(s, l) IN [r EXCEPT !.mark = @ \/ marked]
    ELSE IF l.bidAttempts < s.maxBidAttempts
    THEN [s |-> [s EXCEPT !.log = AddLog(@, "info", <<"Retrying in 2s...">>)],
          l |-> [l EXCEPT !.pc = "bidSleep"], mark |-> marked]
    ELSE LET r == BidLoop(s, l) IN [r EXCEPT !.mark = @ \/ marked]

SetOutcome(l, o) == [l EXCEPT !.calls[Len(l.calls)].outcome = o]

\* submitBid confirmed the bid after k tick-alignment bumps: the rest of
\* placeBid and of the loop body
BidConfirmed(i, k) ==
    /\ up /\ i \in DOMAIN loops /\ loops[i].pc = "submit"
    /\ LET s == heap[i]
           l == loops[i]
           actualFdv == AlignedFdv(l.calls[Len(l.calls)].target, k)
           s1 == [s EXCEPT
                    !.bidsPlaced = @ + 1,
                    !.lastBidFdv = <<actualFdv>>,
                    !.currentFdv = IF actualFdv > @ THEN actualFdv ELSE @,
                    !.log = AddLog(@, "bid", <<"Bid confirmed">>)]
           l1 == [SetOutcome(l, "ok") EXCEPT !.bidAttempts = @ + 1]
       IN  /\ IF StopsAfterBid(TRUE)
              THEN Apply(i, AfterBidLoop(
                       [s1 EXCEPT !.status = "done",
                                  !.log = AddLog(@, "info", <<"Strategy complete">>)],
                       l1), TRUE)
              ELSE Apply(i, AfterRejectedBid(s1, l1, FALSE), FALSE)
           /\ chain' = [chain EXCEPT ![s.auctionAddress] = @ + 1]
    /\ UNCHANGED <<up, strategies, block, disk, runs, crashes, faults, saved,
                   preCrash>>

\* submitBid threw: placeBid's catch and the rest of the loop body
BidRejected(i, env) ==
    /\ up /\ i \in DOMAIN loops /\ loops[i].pc = "submit"
    /\ LET s == heap[i]
           l == [loops[i] EXCEPT !.bidAttempts = @ + 1]
       IN  \/ NoFault /\ Apply(i, AfterRejectedBid(
                  [s EXCEPT !.currentFdv = BumpedFdv(s.currentFdv, s.maxFdvUsd),
                            !.log = AddLog(@, "error", <<"Bid below clearing price">>)],
                  SetOutcome(l, "tooLow"), FALSE), FALSE)
           \/ NoFault /\ Apply(i, AfterRejectedBid(
                  [s EXCEPT !.status = "done",
                            !.log = AddLog(@, "error", <<"Auction ended">>)],
                  SetOutcome(l, "ended"), TRUE), FALSE)
           \/ \E m \in env.errs :
                Fault(m) /\
                Apply(i, AfterRejectedBid(
                  [s EXCEPT !.log = AddLog(@, "error", <<"Bid failed: ">> \o m)],
                  SetOutcome(l, "other"), FALSE), FALSE)
    /\ Quiet

\* submitBid threw after walletClient.sendTransaction had sent the bid:
\* waitForTransactionReceipt rejected (bid.ts 104) while the transaction was
\* mined.  placeBid's catch treats it as any other failure.
BidReceiptLost(i, env) ==
    /\ up /\ i \in DOMAIN loops /\ loops[i].pc = "submit"
    /\ LET s == heap[i]
           l == [loops[i] EXCEPT !.bidAttempts = @ + 1]
       IN  /\ \E m \in env.errs :
                Fault(m) /\
                Apply(i, AfterRejectedBid(
                  [s EXCEPT !.log = AddLog(@, "error", <<"Bid failed: ">> \o m)],
                  SetOutcome(l, "sent"), FALSE), FALSE)
           /\ chain' = [chain EXCEPT ![s.auctionAddress] = @ + 1]
    /\ UNCHANGED <<up, strategies, block, disk, runs, crashes, saved, preCrash>>

\* the 2 s sleep between two attempts is over
BidWake(i) ==
    /\ up /\ i \in DOMAIN loops /\ loops[i].pc = "bidSleep"
    /\ Apply(i, BidLoop(heap[i], loops[i]), FALSE)
    /\ NoFault
    /\ Quiet

Running(l) == l.pc \notin {"none", "ended", "threw"}

\* POST /api/strategy/:addr/cancel, when cancelStrategy returns true
CancelStrategy(a) ==
    /\ up
    /\ LET k == KeyIndex(strategies, heap, a)
       IN  /\ k # 0
           /\ LET i == strategies[k]
              IN  /\ heap[i].status \in {"waiting", "watching", "bidding"}
                  /\ heap' = [heap EXCEPT
                               ![i].status = "done",
                               ![i].log = AddLog(@, "info", <<"Strategy cancelled">>)]
                  /\ loops' = [loops EXCEPT
                                ![i].cancelSeen = IF Running(loops[i]) /\ @ = "no"
                                                  THEN "pending" ELSE @]
    /\ MarkDirty
    /\ NoFault
    /\ Quiet

\* the chain produces blocks
AdvanceBlock ==
    /\ \E h \in Heights : h > block /\ block' = h
    /\ NoMark
    /\ UNCHANGED <<up, heap, strategies, loops, disk, chain,
                   runs, crashes, faults, saved, preCrash>>

-----------------------------------------------------------------------------
(* persistence.ts: the document.  JSON.stringify and JSON.parse work on the *)
(* fields the model keeps; the indentation JSON.stringify adds is left out. *)

DigitChars == <<"0", "1", "2", "3", "4", "5", "6", "7", "8", "9">>

IsDigit(c) == \E d \in 1..10 : DigitChars[d] = c

DigitVal(c) == (CHOOSE d \in 1..10 : DigitChars[d] = c) - 1

RECURSIVE NumText(_)
NumText(n) ==
    IF n < 10 THEN <<DigitChars[n + 1]>>
    ELSE NumText(n \div 10) \o <<DigitChars[(n % 10) + 1]>>

\* JSON.stringify of a string: quotes and backslashes are escaped, a newline
\* becomes backslash-n, every other character (the backtick too) is copied
RECURSIVE Escaped(_)
Escaped(str) ==
    IF str = <<>> THEN <<>>
    ELSE (CASE Head(str) = QT -> <<BS, QT>>
            [] Head(str) = BS -> <<BS, BS>>
            [] Head(str) = NL -> <<BS, "n">>
            [] OTHER -> <<Head(str)>>) \o Escaped(Tail(str))

StrText(str) == <<QT>> \o Escaped(str) \o <<QT>>

\* the fields of a log entry and of a StrategyState, in declaration order
LogSchema == << [key |-> "message", kind |-> "str"],
                [key |-> "type",    kind |-> "word"] >>

StrategySchema ==
    << [key |-> "auctionAddress", kind |-> "str"],
       [key |-> "status",         kind |-> "word"],
       [key |-> "minFdvUsd",      kind |-> "num"],
       [key |-> "maxFdvUsd",      kind |-> "num"],
       [key |-> "currentFdv",     kind |-> "num"],
       [key |-> "impliedFdv",     kind |-> "num"],
       [key |-> "bidsPlaced",     kind |-> "num"],
       [key |-> "maxBidAttempts", kind |-> "num"],
       [key |-> "lastBidFdv",     kind |-> "opt"],
       [key |-> "log",            kind |-> "logs"] >>

RECURSIVE ValueText(_, _), FieldsText(_, _), ListText(_, _)

\* JSON.stringify of one value
ValueText(v, kind) ==
    CASE kind = "str"  -> StrText(v)
      [] kind = "word" -> StrText(<<v>>)
      [] kind = "num"  -> NumText(v)
      [] kind = "opt"  -> IF v = <<>> THEN <<"null">> ELSE NumText(v[1])
      [] kind = "logs" -> <<"[">> \o ListText(v, LogSchema) \o <<"]">>
      [] kind = "strategies" -> <<"[">> \o ListText(v, StrategySchema) \o <<"]">>

FieldsText(obj, schema) ==
    IF schema = <<>> THEN <<>>
    ELSE StrText(<<Head(schema).key>>) \o <<":">>
         \o ValueText(obj[Head(schema).key], Head(schema).kind)
         \o (IF Len(schema) > 1 THEN <<",">> ELSE <<>>)
         \o FieldsText(obj, Tail(schema))

ListText(list, schema) ==
    IF list = <<>> THEN <<>>
    ELSE <<"{">> \o FieldsText(Head(list), schema) \o <<"}">>
         \o (IF Len(list) > 1 THEN <<",">> ELSE <<>>)
         \o ListText(Tail(list), schema)

\* saveState: the document for what the collectors returned
Document(sections) ==
    LET RECURSIVE Body(_)
        Body(ss) ==
            IF ss = <<>> THEN <<>>
            ELSE <<"## ", Head(ss).section, NL, BT, BT, BT, "json", NL>>
                 \o ValueText(Head(ss).data, Head(ss).kind)
                 \o <<NL, BT, BT, BT, NL, NL>>
                 \o Body(Tail(ss))
    IN  <<"# Flow-Bid State", NL, NL, "_Last saved_", NL, NL>> \o Body(sections)

\* the registered collectors, in registration order
Collectors(m, h) ==
    << [section |-> "Bid Strategies", kind |-> "strategies", data |-> Collect(m, h)] >>

(* JSON.parse: every reader returns [ok, v, n]: whether the text at position *)
(* i is a value of the kind, the value, and the position after it.          *)

Bad == [ok |-> FALSE, v |-> <<>>, n |-> 0]

Good(v, n) == [ok |-> TRUE, v |-> v, n |-> n]

At(t, i, c) == i <= Len(t) /\ t[i] = c

Unescaped(c) == IF c = "n" THEN NL ELSE c

RECURSIVE ReadStr(_, _, _)
ReadStr(t, i, acc) ==
    IF i > Len(t) THEN Bad
    ELSE IF t[i] = QT THEN Good(acc, i + 1)
    ELSE IF t[i] = BS
    THEN IF i + 1 > Len(t) THEN Bad
         ELSE ReadStr(t, i + 2, Append(acc, Unescaped(t[i + 1])))
    ELSE ReadStr(t, i + 1, Append(acc, t[i]))

RECURSIVE ReadNum(_, _, _)
ReadNum(t, i, acc) ==
    IF i <= Len(t) /\ IsDigit(t[i])
    THEN ReadNum(t, i + 1, acc * 10 + DigitVal(t[i]))
    ELSE Good(acc, i)

RECURSIVE ReadValue(_, _, _), ReadFields(_, _, _, _), ReadList(_, _, _, _)

ReadValue(t, i, kind) ==
    CASE kind = "str" -> IF At(t, i, QT) THEN ReadStr(t, i + 1, <<>>) ELSE Bad
      [] kind = "word" ->
            LET r == IF At(t, i, QT) THEN ReadStr(t, i + 1, <<>>) ELSE Bad
            IN  IF r.ok /\ Len(r.v) = 1 THEN Good(r.v[1], r.n) ELSE Bad
      [] kind = "num" ->
            IF i <= Len(t) /\ IsDigit(t[i]) THEN ReadNum(t, i, 0) ELSE Bad
      [] kind = "opt" ->
            IF At(t, i, "null") THEN Good(<<>>, i + 1)
            ELSE IF i <= Len(t) /\ IsDigit(t[i])
            THEN LET r == ReadNum(t, i, 0) IN Good(<<r.v>>, r.n)
            ELSE Bad
      [] kind = "logs" ->
            IF At(t, i, "[") THEN ReadList(t, i + 1, LogSchema, <<>>) ELSE Bad
      [] kind = "strategies" ->
            IF At(t, i, "[") THEN ReadList(t, i + 1, StrategySchema, <<>>) ELSE Bad

\* the members of an object, after its opening brace, up to its closing one
ReadFields(t, i, schema, acc) ==
    LET key == ReadValue(t, i, "word")
    IN  IF ~(key.ok /\ key.v = Head(schema).key /\ At(t, key.n, ":")) THEN Bad
        ELSE LET r == ReadValue(t, key.n + 1, Head(schema).kind)
             IN  IF ~r.ok THEN Bad
                 ELSE LET obj == (key.v :> r.v) @@ acc
                      IN  IF Len(schema) = 1
                          THEN IF At(t, r.n, "}") THEN Good(obj, r.n + 1) ELSE Bad
                          ELSE IF At(t, r.n, ",")
                               THEN ReadFields(t, r.n + 1, Tail(schema), obj)
                               ELSE Bad

\* the elements of an array, after its opening bracket, up to its closing one
ReadList(t, i, schema, acc) ==
    IF At(t, i, "]") /\ acc = <<>> THEN Good(acc, i + 1)
    ELSE IF ~At(t, i, "{") THEN Bad
    ELSE LET r == ReadFields(t, i + 1, schema, <<>>)
         IN  IF ~r.ok THEN Bad
             ELSE IF At(t, r.n, "]") THEN Good(Append(acc, r.v), r.n + 1)
             ELSE IF At(t, r.n, ",") THEN ReadList(t, r.n + 1, schema, Append(acc, r.v))
             ELSE Bad

\* JSON.parse(text): one value, then white space only
JsonParse(t, kind) ==
    LET r == ReadValue(t, 1, kind)
    IN  IF r.ok /\ \A j \in r.n..Len(t) : t[j] = NL THEN r ELSE Bad

\* the kind of value a section of the document holds
SectionKind(section) ==
    CASE section = "Bid Strategies" -> "strategies"
      [] OTHER -> "str"

\* the least element of a non-empty set of positions
First(S) == CHOOSE j \in S : \A k \in S : j <= k

\* /^## (.+)$/gm: the names on the lines that start with "## "
SectionNames(t) ==
    LET starts == { i \in 1..(Len(t) - 1) :
                      t[i] = "## " /\ (i = 1 \/ t[i - 1] = NL) }
        RECURSIVE Names(_)
        Names(S) == IF S = {} THEN <<>>
                    ELSE <<t[First(S) + 1]>> \o Names(S \ {First(S)})
    IN  Names(starts)

Fence(t, i) == i + 2 <= Len(t) /\ t[i] = BT /\ t[i + 1] = BT /\ t[i + 2] = BT

\* the first position at or after i where three backticks stand, 0 if none
FenceFrom(t, i) ==
    LET S == { j \in i..(Len(t) - 2) : Fence(t, j) }
    IN  IF S = {} THEN 0 ELSE First(S)

\* the regular expression 3 backticks, json, newline, ([\s\S]*?), 3 backticks,
\* flag g: what each match captures, in order; a match
\* starts at the first opening fence at or after i and ends, lazily, at the
\* first three backticks after it
RECURSIVE JsonBlocks(_, _)
JsonBlocks(t, i) ==
    LET open == FenceFrom(t, i)
    IN  IF open = 0 THEN <<>>
        ELSE IF ~(At(t, open + 3, "json") /\ At(t, open + 4, NL))
        THEN JsonBlocks(t, open + 1)
        ELSE LET close == FenceFrom(t, open + 5)
             IN  IF close = 0 THEN <<>>
                 ELSE <<SubSeq(t, open + 5, close - 1)>> \o JsonBlocks(t, close + 3)

\* loadState: the sections of the document that parse, as a sequence of
\* [section, data]; no document, no sections
LoadState(d) ==
    IF d = <<>> THEN <<>>
    ELSE LET sections == SectionNames(d[1])
             blocks == JsonBlocks(d[1], 1)
             RECURSIVE Result(_)
             Result(b) ==
                 IF b > Len(blocks) THEN <<>>
                 ELSE IF b > Len(sections) THEN Result(b + 1)
                 ELSE LET r == JsonParse(blocks[b], SectionKind(sections[b]))
                      IN  (IF r.ok THEN <<[section |-> sections[b], data |-> r.v]>>
                           ELSE <<>>) \o Result(b + 1)
         IN  Result(1)

\* savedState[section], <<>> standing for undefined
Section(loaded, section) ==
    LET hits == { k \in 1..Len(loaded) : loaded[k].section = section }
    IN  IF hits = {} THEN <<>>
        ELSE <<loaded[CHOOSE k \in hits : \A j \in hits : j <= k].data>>

-----------------------------------------------------------------------------
(* persistence.ts and server.ts: snapshot, crash, boot *)

\* the debounce timer set by markDirty fires: saveState when dirty; the
\* write either replaces the document or throws and leaves it as it was
TimerFire ==
    /\ up /\ pending > 0
    /\ pending' = pending - 1
    /\ timer' = FALSE
    /\ dirty' = FALSE
    /\ IF dirty
       THEN \/ /\ disk' = <<Document(Collectors(strategies, heap))>>
               /\ saved' = Collect(strategies, heap)
               /\ lastSave' = "ok"
            \/ /\ UNCHANGED <<disk, saved>>
               /\ lastSave' = "failed"
       ELSE UNCHANGED <<disk, saved, lastSave>>
    /\ UNCHANGED <<up, heap, strategies, loops, block, chain, runs, crashes,
                   faults, preCrash>>

\* the process dies: memory and timers are gone, the document stays
Crash ==
    /\ up /\ crashes < MaxCrashes
    /\ up' = FALSE
    /\ heap' = <<>> /\ strategies' = <<>> /\ loops' = <<>>
    /\ dirty' = FALSE /\ timer' = FALSE
    /\ pending' = 0 /\ lastSave' = "none"
    /\ crashes' = crashes + 1
    /\ preCrash' = Collect(strategies, heap)
    /\ UNCHANGED <<block, disk, chain, runs, faults, saved>>

\* strategy.ts setStrategies: the map after strategies.set for each state
RECURSIVE SetStrategies(_, _, _)
SetStrategies(m, h, k) ==
    IF k > Len(h) THEN m
    ELSE SetStrategies(MapSet(m, h, h[k].auctionAddress, k), h, k + 1)

\* what boot does with a restored bid strategy: the loop that drives it
RestoredLoop(s) == NoLoop

\* server.ts boot: loadState, then the restore function of each section
Boot ==
    /\ ~up
    /\ up' = TRUE
    /\ LET bids == Section(LoadState(disk), "Bid Strategies")
       IN  IF bids # <<>>
           THEN /\ heap' = bids[1]
                /\ strategies' = SetStrategies(<<>>, bids[1], 1)
                /\ loops' = [k \in 1..Len(bids[1]) |-> RestoredLoop(bids[1][k])]
           ELSE UNCHANGED <<heap, strategies, loops>>
    /\ UNCHANGED <<block, dirty, timer, disk, chain, runs, crashes, faults,
                   saved, preCrash, pending, lastSave>>

-----------------------------------------------------------------------------

\* the process with its snapshot, crash and boot, on the quiet market
Next ==
    /\ \/ \E a \in Addrs, p \in QuietParams : RunStrategy(a, p)
       \/ \E i \in DOMAIN loops : GetAuctionDone(i, QuietMarket)
       \/ \E i \in DOMAIN loops : GetBlockDone(i, QuietMarket)
       \/ \E i \in DOMAIN loops : WaitTick(i)
       \/ \E i \in DOMAIN loops : WaitPollDone(i)
       \/ \E i \in DOMAIN loops : WatchPollDone(i, QuietMarket)
       \/ \E i \in DOMAIN loops : WatchWake(i)
       \/ \E i \in DOMAIN loops : BidPollDone(i, QuietMarket)
       \/ \E i \in DOMAIN loops, k \in 0..MaxAlign : BidConfirmed(i, k)
       \/ \E i \in DOMAIN loops : BidRejected(i, QuietMarket)
       \/ \E i \in DOMAIN loops : BidWake(i)
       \/ \E a \in Addrs : CancelStrategy(a)
       \/ AdvanceBlock
       \/ TimerFire
       \/ Crash
       \/ Boot
    /\ UNCHANGED otherVars

Spec == Init /\ [][Next]_vars

\* the start of a strategy, its cancellation and the snapshot: the process
\* whose debounce timer fires when it is due
NextSave ==
    /\ \/ \E a \in Addrs, p \in QuietParams : RunStrategy(a, p)
       \/ \E i \in DOMAIN loops : GetAuctionDone(i, QuietMarket)
       \/ \E i \in DOMAIN loops : GetBlockDone(i, QuietMarket)
       \/ \E a \in Addrs : CancelStrategy(a)
       \/ AdvanceBlock
       \/ TimerFire
       \/ Crash
       \/ Boot
    /\ UNCHANGED otherVars

SpecSave ==
    Init /\ [][NextSave]_vars /\ WF_vars(TimerFire /\ UNCHANGED otherVars)

\* one life of the process on the full market: the bid engine alone, its
\* snapshot never written
NextBid ==
    /\ \/ \E a \in Addrs, p \in Params : RunStrategy(a, p)
       \/ \E i \in DOMAIN loops : GetAuctionDone(i, Market)
       \/ \E i \in DOMAIN loops : GetBlockDone(i, Market)
       \/ \E i \in DOMAIN loops : WaitTick(i)
       \/ \E i \in DOMAIN loops : WaitPollDone(i)
       \/ \E i \in DOMAIN loops : WatchPollDone(i, Market)
       \/ \E i \in DOMAIN loops : WatchWake(i)
       \/ \E i \in DOMAIN loops : BidPollDone(i, Market)
       \/ \E i \in DOMAIN loops, k \in 0..MaxAlign : BidConfirmed(i, k)
       \/ \E i \in DOMAIN loops : BidRejected(i, Market)
       \/ \E i \in DOMAIN loops : BidReceiptLost(i, Market)
       \/ \E i \in DOMAIN loops : BidWake(i)
       \/ \E a \in Addrs : CancelStrategy(a)
       \/ AdvanceBlock
    /\ UNCHANGED otherVars

SpecBid == Init /\ [][NextBid]_vars

\* two calls of runStrategy, on one auction or on two
NextRuns ==
    /\ \/ \E a \in AllAddrs, p \in QuietParams : RunStrategyWithin(a, p, MaxLoops)
       \/ \E i \in DOMAIN loops : GetAuctionDone(i, QuietMarket)
       \/ \E i \in DOMAIN loops : GetBlockDone(i, QuietMarket)
       \/ \E i \in DOMAIN loops : WaitTick(i)
       \/ \E i \in DOMAIN loops : WaitPollDone(i)
       \/ \E i \in DOMAIN loops : WatchPollDone(i, QuietMarket)
       \/ \E i \in DOMAIN loops : WatchWake(i)
       \/ \E i \in DOMAIN loops : BidPollDone(i, QuietMarket)
       \/ \E i \in DOMAIN loops, k \in 0..MaxAlign : BidConfirmed(i, k)
       \/ \E i \in DOMAIN loops : BidRejected(i, QuietMarket)
       \/ \E i \in DOMAIN loops : BidWake(i)
       \/ \E a \in AllAddrs : CancelStrategy(a)
       \/ AdvanceBlock
    /\ UNCHANGED otherVars

SpecRuns == Init /\ [][NextRuns]_vars

-----------------------------------------------------------------------------
(* exit-strategy.ts: the exit engine of one auction.  FDV and balances are *)
(* whole numbers; a multiple is kept in hundredths (300 is 3x).            *)

MaxFires == 2

\* Number(BigInt(state.totalSupply)) / 10 ** state.tokenDecimals
SupplyHuman == 50

\* what getTokenPrice may answer
TokenPrices == {1, 6, 10}

\* the balance of the held token that arrives in the wallet
TokenBalances == {1, 100}

EntryFdvs == {0, 100}

\* stopLoss of the request, in hundredths (0 would stand for none)
StopLosses == {100}

\* resolveTranches: the profile conservative and the custom "50@3x,50@3x"
ExitProfiles ==
    { [name |-> "conservative",
       tranches |-> << [pctToSell |-> 50, targetMultiple |-> 300],
                       [pctToSell |-> 50, targetMultiple |-> 500] >>],
      [name |-> "custom",
       tranches |-> << [pctToSell |-> 50, targetMultiple |-> 300],
                       [pctToSell |-> 50, targetMultiple |-> 300] >>] }

\* state.currentMultiple = entryFdv > 0 ? currentFdv / entryFdv : 0
Multiple(currentFdv, entryFdv) ==
    IF entryFdv > 0 THEN (currentFdv * 100) \div entryFdv ELSE 0

\* "if (state.currentMultiple < tranche.targetMultiple) continue"
Triggered(currentMultiple, targetMultiple) == ~(currentMultiple < targetMultiple)

\* (currentBalance * BigInt(tranche.pctToSell)) / 100n
SellAmount(currentBalance, pctToSell) == (currentBalance * pctToSell) \div 100

\* Number(amountOut) / 1e6 of a swap of amount tokens
UsdcOut(amount) == amount

ExitLog(e, type, message) == [e EXCEPT !.log = AddLog(@, type, message)]

NewTick ==
    [pc |-> "price", k |-> 0, amount |-> 0, sell |-> 0,
     \* history of this invocation, kept for the properties only
     seen |-> <<>>, bal |-> <<>>, stale |-> FALSE, failed |-> {}]

\* a callback that has returned
EndedTick == [NewTick EXCEPT !.pc = "ended"]

ExitQuiet == UNCHANGED <<bidVars, tradeVars, auxVars>>

InFlight(t) == t.pc # "ended"

\* tokens of the graduated auction arrive in the wallet
ClaimTokens(b) ==
    /\ exit.status = "none" /\ wallet = 0
    /\ wallet' = b
    /\ UNCHANGED <<exit, eticks, esells>>
    /\ ExitQuiet

\* runExitStrategy up to the await of pollAndExecute, whose executor sets
\* the interval
RunExitStrategy(entryFdv, profile, stopLoss) ==
    /\ exit.status = "none" /\ wallet > 0
    /\ exit' = ExitLog(ExitLog(
                 [NoExit EXCEPT !.status = "running",
                                !.entryFdv = entryFdv,
                                !.initialBalance = wallet,
                                !.currentBalance = wallet,
                                !.profileName = profile.name,
                                !.tranches = [k \in DOMAIN profile.tranches |->
                                                [pctToSell |-> profile.tranches[k].pctToSell,
                                                 targetMultiple |-> profile.tranches[k].targetMultiple,
                                                 status |-> "pending"]],
                                !.interval = TRUE,
                                !.stopLossMultiple = stopLoss],
                 "info", <<"Exit strategy started">>), "info", <<"Entry FDV">>)
    /\ UNCHANGED <<eticks, wallet, esells>>
    /\ ExitQuiet

\* cancelExitStrategy, when it returns true
CancelExitStrategy ==
    /\ exit.status = "running"
    /\ exit' = ExitLog([exit EXCEPT !.status = "cancelled"],
                       "info", <<"Exit strategy cancelled">>)
    /\ UNCHANGED <<eticks, wallet, esells>>
    /\ ExitQuiet

\* the interval fires: the callback up to its await of getTokenPrice
ExitTimer ==
    /\ exit.interval
    /\ IF exit.status # "running"
       THEN /\ exit' = [exit EXCEPT !.interval = FALSE]
            /\ UNCHANGED eticks
       ELSE /\ Len(eticks) < MaxFires
            /\ eticks' = Append(eticks, NewTick)
            /\ UNCHANGED exit
    /\ UNCHANGED <<wallet, esells>>
    /\ ExitQuiet

SetTranche(e, k, status) == [e EXCEPT !.tranches[k].status = status]

\* "Check if all tranches are done", the end of a callback
EndOfTick(e, t) ==
    LET e1 == [e EXCEPT !.belowStop =
                 @ \/ (e.stopLossMultiple > 0 /\ e.entryFdv > 0
                        /\ t.seen[1] < e.stopLossMultiple)]
    IN  [e |-> IF \A j \in DOMAIN e1.tranches : e1.tranches[j].status # "pending"
               THEN ExitLog([e1 EXCEPT !.status = "done"], "info", <<"All tranches complete">>)
               ELSE e1,
         t |-> EndedTick]

\* the tranche loop from tranche k on, up to its next await of
\* swapExactInputSingle or to the end of the callback
RECURSIVE Scan(_, _, _)
Scan(e, t, k) ==
    IF k > Len(e.tranches) THEN EndOfTick(e, t)
    ELSE IF e.tranches[k].status # "pending" THEN Scan(e, t, k + 1)
    ELSE IF ~Triggered(e.currentMultiple, e.tranches[k].targetMultiple)
    THEN Scan(e, t, k + 1)
    ELSE IF e.currentBalance = 0
    THEN Scan(ExitLog(SetTranche(e, k, "skipped"), "info", <<"skipped - no balance">>),
              t, k + 1)
    ELSE IF SellAmount(e.currentBalance, e.tranches[k].pctToSell) = 0
    THEN Scan(ExitLog(SetTranche(e, k, "skipped"), "info", <<"skipped - amount too small">>),
              t, k + 1)
    ELSE [e |-> ExitLog(e, "sell", <<"Tranche triggered">>),
          t |-> [t EXCEPT !.pc = "swap", !.k = k,
                          !.amount = SellAmount(e.currentBalance, e.tranches[k].pctToSell)]]

\* what the properties keep of a swap when it is started by callback i
SellRecord(i, e, t) ==
    [tick |-> i, k |-> t.k, amount |-> t.amount, pct |-> e.tranches[t.k].pctToSell,
     target |-> e.tranches[t.k].targetMultiple,
     multiple |-> e.currentMultiple, seen |-> t.seen[1], bal |-> t.bal[1],
     stale |-> t.stale,
     skipped |-> \E j \in t.failed : j < t.k /\ e.tranches[j].status = "pending",
     outcome |-> "pending"]

\* callback i goes on with the tranche loop from tranche k
Resume(i, e, t, k) ==
    LET r == Scan(e, t, k)
    IN  /\ exit' = r.e
        /\ IF r.t.pc = "swap"
           THEN /\ esells' = Append(esells, SellRecord(i, r.e, r.t))
                /\ eticks' = [eticks EXCEPT ![i] = [r.t EXCEPT !.sell = Len(esells) + 1]]
           ELSE /\ eticks' = [eticks EXCEPT ![i] = r.t]
                /\ UNCHANGED esells

\* the catch around the body of the callback
PollError(i) ==
    /\ exit' = ExitLog(exit, "error", <<"Poll error">>)
    /\ eticks' = [eticks EXCEPT ![i] = EndedTick]
    /\ UNCHANGED esells

\* getTokenPrice answered p (or failed)
ExitPriceDone(i) ==
    /\ i \in DOMAIN eticks /\ eticks[i].pc = "price"
    /\ \/ \E p \in TokenPrices :
            LET m == Multiple(p * SupplyHuman, exit.entryFdv)
            IN  /\ exit' = [exit EXCEPT !.currentFdv = p * SupplyHuman,
                                        !.currentMultiple = m]
                /\ eticks' = [eticks EXCEPT ![i].pc = "balance", ![i].seen = <<m>>]
                /\ UNCHANGED esells
       \/ PollError(i)
    /\ UNCHANGED wallet
    /\ ExitQuiet

\* the balanceOf before the tranche loop answered (or failed)
ExitBalanceDone(i) ==
    /\ i \in DOMAIN eticks /\ eticks[i].pc = "balance"
    /\ \/ Resume(i, [exit EXCEPT !.currentBalance = wallet],
                 [eticks[i] EXCEPT !.bal = <<wallet>>, !.stale = FALSE], 1)
       \/ PollError(i)
    /\ UNCHANGED wallet
    /\ ExitQuiet

\* the catch around the sell of tranche k: "Don't mark as executed"
SellFailedMarksExecuted(e, k) ==
    ExitLog(SetTranche(e, k, "executed"), "error", <<"sell failed">>)

SellFailed(e, k) == ExitLog(e, "error", <<"sell failed">>)

\* swapExactInputSingle of callback i confirmed the swap
ExitSwapConfirmed(i) ==
    /\ i \in DOMAIN eticks /\ eticks[i].pc = "swap"
    /\ eticks[i].amount <= wallet
    /\ LET t == eticks[i]
       IN  /\ wallet' = wallet - t.amount
           /\ exit' = [SetTranche(exit, t.k, "executed") EXCEPT
                         !.totalUsdcRealized = @ + UsdcOut(t.amount)]
           /\ eticks' = [eticks EXCEPT ![i].pc = "refresh", ![i].stale = TRUE]
           /\ esells' = [esells EXCEPT ![t.sell].outcome = "ok"]
    /\ ExitQuiet

\* swapExactInputSingle of callback i threw
ExitSwapFailed(i) ==
    /\ i \in DOMAIN eticks /\ eticks[i].pc = "swap"
    /\ LET t == eticks[i]
           r == Scan(SellFailed(exit, t.k), [t EXCEPT !.failed = @ \cup {t.k}], t.k + 1)
           marked == [esells EXCEPT ![t.sell].outcome = "failed"]
       IN  /\ exit' = r.e
           /\ IF r.t.pc = "swap"
              THEN /\ esells' = Append(marked, SellRecord(i, r.e, r.t))
                   /\ eticks' = [eticks EXCEPT ![i] = [r.t EXCEPT !.sell = Len(esells) + 1]]
              ELSE /\ eticks' = [eticks EXCEPT ![i] = r.t]
                   /\ esells' = marked
    /\ UNCHANGED wallet
    /\ ExitQuiet

\* the balanceOf after a sell answered, or failed into the sell's catch
ExitRefreshDone(i) ==
    /\ i \in DOMAIN eticks /\ eticks[i].pc = "refresh"
    /\ LET t == eticks[i]
       IN  \/ Resume(i, ExitLog([exit EXCEPT !.currentBalance = wallet], "sell", <<"Sold">>),
                     [t EXCEPT !.bal = <<wallet>>, !.stale = FALSE], t.k + 1)
           \/ Resume(i, SellFailed(exit, t.k), t, t.k + 1)
    /\ UNCHANGED wallet
    /\ ExitQuiet

\* the exit engine of one auction
NextExit ==
    \/ \E b \in TokenBalances : ClaimTokens(b)
    \/ \E f \in EntryFdvs, p \in ExitProfiles, sl \in StopLosses : RunExitStrategy(f, p, sl)
    \/ CancelExitStrategy
    \/ ExitTimer
    \/ \E i \in DOMAIN eticks : ExitPriceDone(i)
    \/ \E i \in DOMAIN eticks : ExitBalanceDone(i)
    \/ \E i \in DOMAIN eticks : ExitSwapConfirmed(i)
    \/ \E i \in DOMAIN eticks : ExitSwapFailed(i)
    \/ \E i \in DOMAIN eticks : ExitRefreshDone(i)

SpecExit == Init /\ [][NextExit]_vars

-----------------------------------------------------------------------------
(* trading/engine.ts: one trading strategy.  JavaScript numbers are modelled *)
(* exactly: token amounts and dollar amounts are integers, avgEntryPrice and *)
(* pnl.realized are fractions <<numerator, denominator>> in lowest terms.    *)
(* Date.now() is a clock that never goes back, read in units of a strategy's *)
(* interval: each reading is any value from the latest one up to MaxClock.   *)

MaxTradeFires == 2
MaxCalls == 1
\* the largest value Date.now() returns
MaxClock == 3

MAX_SINGLE_TRADE_USDC == 500
TRADE_LOG_CAP == 100

\* getPrice: the prices the tracker may hold
TradePrices == {1, 4}

\* what an evaluator may return
Signals ==
    { [side |-> "none", amountUsdc |-> 0],
      [side |-> "buy",  amountUsdc |-> 4],
      [side |-> "buy",  amountUsdc |-> 2000],
      [side |-> "sell", amountUsdc |-> 4],
      [side |-> "sell", amountUsdc |-> 2000] }

\* riskLimits: the defaults of startDca, no limits, and a small position cap
RiskLimitSets ==
    { [maxPositionUsdc |-> 5000, stopLossPercent |-> 20, maxDrawdownPercent |-> 30],
      [maxPositionUsdc |-> 0,    stopLossPercent |-> 0,  maxDrawdownPercent |-> 0],
      [maxPositionUsdc |-> 4,    stopLossPercent |-> 0,  maxDrawdownPercent |-> 30] }

\* the wallet's USDC as executeBuy reads it
UsdcBalances == {0, 1000}

\* sellStrategyPosition: pct
SellPcts == {50, 100}

RECURSIVE Gcd(_, _)
Gcd(a, b) == IF b = 0 THEN a ELSE Gcd(b, a % b)

Abs(x) == IF x < 0 THEN -x ELSE x

\* the number n / d
Rat(n, d) ==
    LET g == Gcd(Abs(n), Abs(d))
        s == IF d < 0 THEN -1 ELSE 1
    IN  <<(s * n) \div g, (s * d) \div g>>

RAdd(a, b) == Rat(a[1] * b[2] + b[1] * a[2], a[2] * b[2])
RMul(a, b) == Rat(a[1] * b[1], a[2] * b[2])
RDiv(a, b) == Rat(a[1] * b[2], a[2] * b[1])
RNeg(a) == <<-a[1], a[2]>>
RLess(a, b) == a[1] * b[2] < b[1] * a[2]

\* addLog: push, keep the last 100 entries
TradeLog(s, message, type) ==
    LET l == Append(s.log, [type |-> type, message |-> message])
    IN  [s EXCEPT !.log = IF Len(l) > TRADE_LOG_CAP THEN Tail(l) ELSE l]

\* an asynchronous job on the strategy: a tick of the interval, a
\* sellStrategyPosition call or a liquidateAll call
NewJob(kind) ==
    [kind |-> kind, pc |-> "ended", side |-> "none", amount |-> 0, price |-> 0,
     reason |-> "none", pct |-> 0,
     \* kept for the properties only: the risk check that fired in the tick
     risk |-> "none"]

JobInFlight(j) == j.pc # "ended"

Ticks == { i \in DOMAIN tjobs : tjobs[i].kind = "tick" }

\* one more call of the engine's API on the strategy
Called(s) == [s EXCEPT !.calls = @ + 1]

\* what the trading engine leaves alone
TradeQuiet(mark) ==
    /\ IF mark THEN MarkDirty ELSE NoMark
    /\ UNCHANGED <<up, heap, strategies, loops, block, disk, chain, runs,
                   crashes, faults, saved, preCrash>>
    /\ UNCHANGED <<exitVars, auxVars>>

\* startTracking: one more reference to the token's poller; the first one
\* creates the entry and its interval
StartTracking(s) == [s EXCEPT !.refCount = @ + 1]

\* stopTracking: one reference less; the entry and its interval go with
\* the last one
StopTracking(s) == [s EXCEPT !.refCount = IF @ = 0 THEN 0 ELSE @ - 1]

\* startStrategyLoop: startTracking, then the interval
StartStrategyLoop(s) == [StartTracking(s) EXCEPT !.timer = TRUE]

\* stopStrategyLoop: clearInterval and forget the timer, then stopTracking
\* when the strategy is still in the Map
StopStrategyLoop(s) ==
    LET t == [s EXCEPT !.timer = FALSE]
    IN  IF s.inMap THEN StopTracking(t) ELSE t

\* the state a start function builds: running, an empty position, and the
\* line it pushes on the log
FreshState(type, limits, params) ==
    [NoTrade EXCEPT !.status = "running", !.riskLimits = limits,
                    !.type = type, !.params = params,
                    !.log = <<[type |-> "info", message |-> <<"started">>]>>]

\* runTradingStrategy: the state in the Map, tracked, its loop started
Started(state) == StartStrategyLoop(StartTracking([state EXCEPT !.inMap = TRUE]))

\* runTradingStrategy with the state of a start function
RunTradingStrategy(state) ==
    /\ trade.status = "none"
    /\ trade' = Started(state)
    /\ UNCHANGED tjobs
    /\ TradeQuiet(TRUE)

\* what the caller of startDca may pass
DcaOptions ==
    { [amountPerBuy |-> 8, intervalMs |-> 1, totalBudget |-> 12,
       riskLimits |-> [maxPositionUsdc |-> 5000, stopLossPercent |-> 20,
                       maxDrawdownPercent |-> 30]],
      [amountPerBuy |-> 8, intervalMs |-> 1, totalBudget |-> 0,
       riskLimits |-> [maxPositionUsdc |-> 4, stopLossPercent |-> 0,
                       maxDrawdownPercent |-> 30]] }

\* what the caller of startTwap may pass; chunks divides both amounts
TwapOptions ==
    { [totalAmount |-> 8, durationMs |-> 2, chunks |-> c,
       riskLimits |-> [maxPositionUsdc |-> 5000, stopLossPercent |-> 20,
                       maxDrawdownPercent |-> 30]] : c \in {1, 2} }

\* what the caller of startMeanReversion may pass
MeanReversionOptions ==
    { [amountPerTrade |-> 2000, buyThresholdPct |-> 5, sellThresholdPct |-> 5,
       cooldownMs |-> 1,
       riskLimits |-> [maxPositionUsdc |-> 5000, stopLossPercent |-> 25,
                       maxDrawdownPercent |-> 30]] }

StartDca(opts) ==
    RunTradingStrategy(
        FreshState("dca", opts.riskLimits,
                   [NoParams EXCEPT !.amountPerBuy = opts.amountPerBuy,
                                    !.intervalMs = opts.intervalMs,
                                    !.totalBudget = opts.totalBudget]))

\* startTwap: the state, Date.now() being now
TwapState(opts, now) ==
    [FreshState("twap", opts.riskLimits,
                [NoParams EXCEPT !.chunks = opts.chunks,
                                 !.chunkSize = opts.totalAmount \div opts.chunks,
                                 !.chunkInterval = opts.durationMs \div opts.chunks,
                                 !.startTime = now])
     EXCEPT !.clock = now]

StartTwap(opts) == RunTradingStrategy(TwapState(opts, trade.clock))

StartMeanReversion(opts) ==
    RunTradingStrategy(
        FreshState("mean-reversion", opts.riskLimits,
                   [NoParams EXCEPT !.amountPerTrade = opts.amountPerTrade,
                                    !.buyThresholdPct = opts.buyThresholdPct,
                                    !.sellThresholdPct = opts.sellThresholdPct,
                                    !.cooldownMs = opts.cooldownMs]))

CancelTradingStrategy ==
    /\ trade.inMap
    /\ trade.calls < MaxCalls
    /\ trade.status \in {"running", "paused"}
    /\ trade' = Called(StopStrategyLoop(
                    TradeLog([trade EXCEPT !.status = "done"],
                             <<"Strategy cancelled by user">>, "info")))
    /\ UNCHANGED tjobs
    /\ TradeQuiet(TRUE)

PauseTradingStrategy ==
    /\ trade.inMap
    /\ trade.calls < MaxCalls
    /\ trade.status = "running"
    /\ trade' = Called(TradeLog([trade EXCEPT !.status = "paused"],
                                <<"Strategy paused">>, "info"))
    /\ UNCHANGED tjobs
    /\ TradeQuiet(TRUE)

CanResumeAlways(status) == TRUE

\* resumeTradingStrategy: if (!s || s.status !== "paused") return false
CanResume(status) == status = "paused"

ResumeTradingStrategy ==
    /\ trade.inMap
    /\ trade.calls < MaxCalls
    /\ CanResume(trade.status)
    /\ trade' = Called(TradeLog([trade EXCEPT !.status = "running"],
                                <<"Strategy resumed">>, "info"))
    /\ UNCHANGED tjobs
    /\ TradeQuiet(TRUE)

RemoveTradingStrategy ==
    /\ trade.inMap
    /\ trade.calls < MaxCalls
    /\ trade' = Called([(IF trade.status \in {"running", "paused"}
                         THEN StopStrategyLoop(trade) ELSE trade)
                        EXCEPT !.inMap = FALSE])
    /\ UNCHANGED tjobs
    /\ TradeQuiet(TRUE)

\* tick: currentPrice < avgEntryPrice * (1 - stopLossPercent / 100)
StopLossHit(s, currentPrice) ==
    /\ s.position.tokenBalance > 0
    /\ RLess(RInt(0), s.position.avgEntryPrice)
    /\ s.riskLimits.stopLossPercent > 0
    /\ RLess(RInt(currentPrice),
             RMul(s.position.avgEntryPrice,
                  RAdd(RInt(1), RNeg(Rat(s.riskLimits.stopLossPercent, 100)))))

\* tick: drawdownPct > maxDrawdownPercent
DrawdownHit(s) ==
    /\ s.riskLimits.maxDrawdownPercent > 0
    /\ s.position.totalInvested > 0
    /\ LET totalReturn == RAdd(s.pnl.realized, RInt(s.pnl.unrealized))
           drawdownPct == RMul(RDiv(RNeg(totalReturn), RInt(s.position.totalInvested)),
                               RInt(100))
       IN  RLess(RInt(s.riskLimits.maxDrawdownPercent), drawdownPct)

RiskCheckDrawdownFirst(sl, dd) ==
    IF dd THEN "drawdown" ELSE IF sl THEN "stop-loss" ELSE "none"

\* tick: the stop-loss block comes before the max-drawdown block, and each
\* of them returns
RiskCheck(sl, dd) ==
    IF sl THEN "stop-loss" ELSE IF dd THEN "drawdown" ELSE "none"

\* executeSell up to its await: the log line and the swap request
StartSell(s, j, tokenAmount, currentPrice, reason) ==
    [s |-> TradeLog(s, <<"SELL", reason>>, "trade"),
     j |-> [j EXCEPT !.pc = "swap", !.side = "sell", !.amount = tokenAmount,
                     !.price = currentPrice, !.reason = reason],
     mark |-> FALSE]

NoSignal == [side |-> "none", amountUsdc |-> 0]

\* getEma: no value while the history is short
NoEma == 0

\* getEma: the averages the history may give
Emas == {2}

\* dcaEvaluate, Date.now() being now
DcaEvaluate(s, now) ==
    LET p == s.params
        t == [s EXCEPT !.clock = now]
        remaining == p.totalBudget - s.position.totalInvested
        amount == IF p.totalBudget > 0 THEN Min(p.amountPerBuy, remaining)
                  ELSE p.amountPerBuy
    IN  IF p.lastBuyTime > 0 /\ now - p.lastBuyTime < p.intervalMs
        THEN [s |-> t, signal |-> NoSignal]
        ELSE IF p.totalBudget > 0 /\ s.position.totalInvested >= p.totalBudget
        THEN [s |-> t, signal |-> NoSignal]
        ELSE IF amount <= 0
        THEN [s |-> t, signal |-> NoSignal]
        ELSE [s |-> [t EXCEPT !.params.lastBuyTime = now, !.marked = @ + 1],
              signal |-> [side |-> "buy", amountUsdc |-> amount]]

\* twapEvaluate, Date.now() being now
TwapEvaluate(s, now) ==
    LET p == s.params
        nextChunkTime == p.startTime + (p.chunksExecuted + 1) * p.chunkInterval
    IN  IF p.chunksExecuted >= p.chunks
        THEN [s |-> [s EXCEPT !.status = "done", !.doneByEvaluator = TRUE,
                              !.log = Append(@, [type |-> "info",
                                                 message |-> <<"TWAP complete">>])],
              signal |-> NoSignal]
        ELSE IF now < nextChunkTime
        THEN [s |-> [s EXCEPT !.clock = now], signal |-> NoSignal]
        ELSE [s |-> [s EXCEPT !.clock = now, !.params.chunksExecuted = @ + 1,
                              !.params.lastChunkTime = now, !.marked = @ + 1],
              signal |-> [side |-> "buy", amountUsdc |-> p.chunkSize]]

\* meanReversionEvaluate, Date.now() being now and indicators.ema(...)
\* emaValue; deviation is compared without dividing
MeanReversionEvaluate(s, now, currentPrice, emaValue) ==
    LET p == s.params
        t == [s EXCEPT !.clock = now]
        below == (currentPrice - emaValue) * 100 < (-p.buyThresholdPct) * emaValue
        above == (currentPrice - emaValue) * 100 > p.sellThresholdPct * emaValue
    IN  IF emaValue = NoEma THEN [s |-> s, signal |-> NoSignal]
        ELSE IF p.lastTradeTime > 0 /\ now - p.lastTradeTime < p.cooldownMs
        THEN [s |-> t, signal |-> NoSignal]
        ELSE IF below
        THEN [s |-> [t EXCEPT !.params.lastTradeTime = now, !.marked = @ + 1],
              signal |-> [side |-> "buy", amountUsdc |-> p.amountPerTrade]]
        ELSE IF above /\ s.position.tokenBalance > 0
        THEN [s |-> [t EXCEPT !.params.lastTradeTime = now],
              signal |-> [side |-> "sell", amountUsdc |-> p.amountPerTrade]]
        ELSE [s |-> t, signal |-> NoSignal]

\* evaluate(state, indicators): the evaluator the strategy was started
\* with; one of another module returns any signal
Evaluate(s, now, currentPrice, emaValue, signal) ==
    IF s.type = "dca" THEN DcaEvaluate(s, now)
    ELSE IF s.type = "twap" THEN TwapEvaluate(s, now)
    ELSE IF s.type = "mean-reversion"
    THEN MeanReversionEvaluate(s, now, currentPrice, emaValue)
    ELSE [s |-> s, signal |-> signal]

CapOff(amountUsdc) == amountUsdc

\* tick: Math.min(signal.amountUsdc, MAX_SINGLE_TRADE_USDC)
Cap(amountUsdc) == Min(amountUsdc, MAX_SINGLE_TRADE_USDC)

\* tick from the evaluator on, with the signal the evaluator returned
Evaluated(s, j, currentPrice, signal) ==
    LET cappedAmount == Cap(signal.amountUsdc)
        tokenAmount == cappedAmount \div currentPrice
        sellAmount == Min(tokenAmount, s.position.tokenBalance)
    IN  IF signal.side = "none" THEN [s |-> s, j |-> j, mark |-> FALSE]
        ELSE IF /\ signal.side = "buy"
                /\ s.riskLimits.maxPositionUsdc > 0
                /\ s.position.tokenBalance * currentPrice >= s.riskLimits.maxPositionUsdc
        THEN [s |-> s, j |-> j, mark |-> FALSE]
        ELSE IF signal.side = "buy"
        THEN [s |-> s,
              j |-> [j EXCEPT !.pc = "usdc", !.side = "buy", !.amount = cappedAmount,
                              !.price = currentPrice, !.reason = "signal"],
              mark |-> FALSE]
        ELSE IF sellAmount > 0
        THEN StartSell(s, j, sellAmount, currentPrice, "signal")
        ELSE [s |-> s, j |-> j, mark |-> FALSE]

\* tick up to its first await
Tick(s, currentPrice, signal, now, emaValue) ==
    LET s1 == [s EXCEPT !.pnl.unrealized =
                 s.position.tokenBalance * currentPrice
                   - s.position.totalInvested + s.position.totalRealized]
        fired == RiskCheck(StopLossHit(s1, currentPrice), DrawdownHit(s1))
        seen == [price |-> currentPrice,
                 tokenBalance |-> s1.position.tokenBalance,
                 avgEntryPrice |-> s1.position.avgEntryPrice,
                 totalInvested |-> s1.position.totalInvested,
                 realized |-> s1.pnl.realized, unrealized |-> s1.pnl.unrealized,
                 fired |-> fired, evaluated |-> FALSE, side |-> "none"]
        s2 == [s1 EXCEPT !.last = seen,
                         !.evalAfterStop = @ \/ (s.byStopLoss /\ fired = "none")]
        j == [NewJob("tick") EXCEPT !.risk = fired]
        ev == Evaluate(s2, now, currentPrice, emaValue, signal)
    IN  IF currentPrice = NoPrice
        THEN [s |-> s, j |-> NewJob("tick"), mark |-> FALSE]
        ELSE IF fired = "stop-loss"
        THEN StartSell(TradeLog(s2, <<"STOP-LOSS triggered">>, "trade"), j,
                       s2.position.tokenBalance, currentPrice, "stop-loss")
        ELSE IF fired = "drawdown"
        THEN [s |-> [TradeLog(s2, <<"MAX DRAWDOWN hit">>, "trade") EXCEPT !.status = "paused"],
              j |-> j, mark |-> TRUE]
        ELSE Evaluated([ev.s EXCEPT !.last.evaluated = TRUE,
                                    !.last.side = ev.signal.side],
                       j, currentPrice, ev.signal)

\* the interval of startStrategyLoop fires
TradeTimer ==
    /\ trade.timer
    /\ IF trade.status # "running"
       THEN /\ trade' = IF trade.status = "paused" THEN trade
                        ELSE StopStrategyLoop(trade)
            /\ UNCHANGED tjobs
            /\ TradeQuiet(FALSE)
       ELSE /\ Cardinality(Ticks) < MaxTradeFires
            /\ \E currentPrice \in TradePrices \cup {NoPrice},
                  signal \in (IF trade.type = "any" THEN Signals ELSE {NoSignal}),
                  now \in (IF trade.type = "any" THEN {trade.clock}
                           ELSE trade.clock .. MaxClock),
                  emaValue \in (IF trade.type = "mean-reversion"
                                THEN Emas \cup {NoEma} ELSE {NoEma}) :
                 LET r == Tick(trade, currentPrice, signal, now, emaValue)
                 IN  /\ trade' = r.s
                     /\ tjobs' = Append(tjobs, r.j)
                     /\ TradeQuiet(r.mark)

\* the code that follows the await of executeSell in its caller
AfterSell(s, j) ==
    IF j.reason = "stop-loss"
    THEN [s |-> TradeLog([s EXCEPT !.status = "done", !.byStopLoss = TRUE],
                         <<"Strategy stopped by stop-loss">>, "info"),
          mark |-> TRUE]
    ELSE IF j.reason = "manual"
    THEN [s |-> IF j.pct = 100 /\ s.status \in {"running", "paused"}
                THEN StopStrategyLoop(
                       TradeLog([s EXCEPT !.status = "done"],
                                <<"Strategy stopped after full sell">>, "info"))
                ELSE s,
          mark |-> TRUE]
    ELSE [s |-> s, mark |-> FALSE]

\* executeBuy: balanceOf(USDC) returned, or threw into the interval's catch
TradeUsdcDone(i) ==
    /\ tjobs[i].pc = "usdc"
    /\ \/ \E usdcAvailable \in UsdcBalances :
            IF usdcAvailable < tjobs[i].amount
            THEN /\ trade' = TradeLog(trade, <<"Insufficient USDC">>, "error")
                 /\ tjobs' = [tjobs EXCEPT ![i].pc = "ended"]
            ELSE /\ trade' = TradeLog(trade, <<"BUY">>, "trade")
                 /\ tjobs' = [tjobs EXCEPT ![i].pc = "swap"]
       \/ /\ trade' = TradeLog(trade, <<"Tick error">>, "error")
          /\ tjobs' = [tjobs EXCEPT ![i].pc = "ended"]
    /\ TradeQuiet(FALSE)

\* executeBuy: the position after a confirmed swap
Bought(s, amountUsdc, tokenReceived) ==
    LET effectivePrice == Rat(amountUsdc, tokenReceived)
        oldBalance == s.position.tokenBalance
        oldAvg == s.position.avgEntryPrice
        newBalance == oldBalance + tokenReceived
    IN  [s EXCEPT !.position.tokenBalance = newBalance,
                  !.position.avgEntryPrice =
                      RDiv(RAdd(RMul(oldAvg, RInt(oldBalance)),
                                RMul(effectivePrice, RInt(tokenReceived))),
                           RInt(newBalance)),
                  !.position.totalInvested = @ + amountUsdc,
                  !.trades = Append(@, [side |-> "buy", amountUsdc |-> amountUsdc,
                                        amountToken |-> tokenReceived])]

\* executeBuy: swapExactInputSingle returned or threw
TradeBuyDone(i) ==
    /\ tjobs[i].pc = "swap"
    /\ tjobs[i].side = "buy"
    /\ \/ /\ trade' = TradeLog(Bought(trade, tjobs[i].amount,
                                      tjobs[i].amount \div tjobs[i].price),
                               <<"BUY OK">>, "trade")
          /\ tjobs' = [tjobs EXCEPT ![i].pc = "notify"]
          /\ TradeQuiet(TRUE)
       \/ /\ trade' = TradeLog(trade, <<"BUY FAILED">>, "error")
          /\ tjobs' = [tjobs EXCEPT ![i].pc = "ended"]
          /\ TradeQuiet(FALSE)

ClampOff(tokenBalance) == tokenBalance

\* executeSell: if (state.position.tokenBalance < 0) state.position.tokenBalance = 0
Clamp(tokenBalance) == IF tokenBalance < 0 THEN 0 ELSE tokenBalance

\* executeSell: the position after a confirmed swap
Sold(s, tokenAmount, usdcReceived) ==
    LET tokenBalance == Clamp(s.position.tokenBalance - tokenAmount)
        totalRealized == s.position.totalRealized + usdcReceived
    IN  [s EXCEPT !.position.tokenBalance = tokenBalance,
                  !.position.totalRealized = totalRealized,
                  !.pnl.realized =
                      RAdd(RInt(totalRealized - s.position.totalInvested),
                           RMul(RInt(tokenBalance), s.position.avgEntryPrice)),
                  !.trades = Append(@, [side |-> "sell", amountUsdc |-> usdcReceived,
                                        amountToken |-> tokenAmount])]

\* executeSell: swapExactInputSingle returned or threw
TradeSellDone(i) ==
    /\ tjobs[i].pc = "swap"
    /\ tjobs[i].side = "sell"
    /\ tjobs[i].kind # "liquidate"
    /\ \/ /\ trade' = TradeLog(Sold(trade, tjobs[i].amount,
                                    tjobs[i].amount * tjobs[i].price),
                               <<"SELL OK">>, "trade")
          /\ tjobs' = [tjobs EXCEPT ![i].pc = "notify"]
          /\ TradeQuiet(TRUE)
       \/ LET r == AfterSell(TradeLog(trade, <<"SELL FAILED">>, "error"), tjobs[i])
          IN  /\ trade' = r.s
              /\ tjobs' = [tjobs EXCEPT ![i].pc = "ended"]
              /\ TradeQuiet(r.mark)

\* sendTelegramMessage returned: executeBuy, executeSell or liquidateAll
\* returns to its caller
TradeNotified(i) ==
    /\ tjobs[i].pc = "notify"
    /\ LET r == IF tjobs[i].side = "sell" /\ tjobs[i].kind # "liquidate"
                THEN AfterSell(trade, tjobs[i])
                ELSE [s |-> trade, mark |-> tjobs[i].kind = "liquidate"]
       IN  /\ trade' = r.s
           /\ tjobs' = [tjobs EXCEPT ![i].pc = "ended"]
           /\ TradeQuiet(r.mark)

\* sellStrategyPosition up to the await in executeSell; pct is one for which
\* the amount is a whole number of tokens
SellStrategyPosition(pct) ==
    /\ trade.inMap
    /\ trade.position.tokenBalance > 0
    /\ pct > 0 /\ pct <= 100
    /\ trade.calls < MaxCalls
    /\ (trade.position.tokenBalance * pct) % 100 = 0
    /\ \E currentPrice \in TradePrices :
         LET r == StartSell(trade, [NewJob("sell") EXCEPT !.pct = pct],
                            (trade.position.tokenBalance * pct) \div 100,
                            currentPrice, "manual")
         IN  /\ trade' = Called(r.s)
             /\ tjobs' = Append(tjobs, r.j)
    /\ TradeQuiet(FALSE)

\* liquidateAll up to the await of its swap
LiquidateAll ==
    /\ trade.inMap
    /\ trade.calls < MaxCalls
    /\ LET s == IF trade.status \in {"running", "paused"}
                THEN StopStrategyLoop(
                       TradeLog([trade EXCEPT !.status = "done"],
                                <<"Strategy cancelled (liquidate all)">>, "info"))
                ELSE trade
       IN  /\ trade' = Called(s)
           /\ \E currentPrice \in TradePrices :
                tjobs' = Append(tjobs,
                    IF s.position.tokenBalance > 0
                    THEN [NewJob("liquidate") EXCEPT
                            !.pc = "swap", !.side = "sell",
                            !.amount = s.position.tokenBalance,
                            !.price = currentPrice, !.reason = "liquidate"]
                    ELSE NewJob("liquidate"))
    /\ TradeQuiet(TRUE)

\* liquidateAll: the position after the swap of the aggregated balance
Liquidated(s, balance, usdcReceived) ==
    LET sold == s.position.tokenBalance
        share == RMul(Rat(sold, balance), RInt(usdcReceived))
        totalRealized == s.position.totalRealized + share[1] \div share[2]
    IN  [s EXCEPT !.position.tokenBalance = 0,
                  !.position.totalRealized = totalRealized,
                  !.pnl.realized = RInt(totalRealized - s.position.totalInvested),
                  !.trades = Append(@, [side |-> "sell",
                                        amountUsdc |-> share[1] \div share[2],
                                        amountToken |-> sold])]

\* liquidateAll: swapExactInputSingle returned or threw
LiquidateDone(i) ==
    /\ tjobs[i].pc = "swap"
    /\ tjobs[i].kind = "liquidate"
    /\ \/ /\ trade' = TradeLog(Liquidated(trade, tjobs[i].amount,
                                          tjobs[i].amount * tjobs[i].price),
                               <<"LIQUIDATED">>, "trade")
          /\ tjobs' = [tjobs EXCEPT ![i].pc = "notify"]
          /\ TradeQuiet(FALSE)
       \/ /\ tjobs' = [tjobs EXCEPT ![i].pc = "ended"]
          /\ UNCHANGED trade
          /\ TradeQuiet(TRUE)

NextTrade ==
    \/ \E limits \in RiskLimitSets :
         RunTradingStrategy(FreshState("any", limits, NoParams))
    \/ CancelTradingStrategy
    \/ PauseTradingStrategy
    \/ ResumeTradingStrategy
    \/ RemoveTradingStrategy
    \/ TradeTimer
    \/ \E i \in DOMAIN tjobs : TradeUsdcDone(i)
    \/ \E i \in DOMAIN tjobs : TradeBuyDone(i)
    \/ \E i \in DOMAIN tjobs : TradeSellDone(i)
    \/ \E i \in DOMAIN tjobs : TradeNotified(i)
    \/ \E pct \in SellPcts : SellStrategyPosition(pct)
    \/ LiquidateAll
    \/ \E i \in DOMAIN tjobs : LiquidateDone(i)

SpecTrade == Init /\ [][NextTrade]_vars

\* the trading engine with the strategies of dca.ts and mean-reversion.ts
NextEval ==
    \/ \E opts \in DcaOptions : StartDca(opts)
    \/ \E opts \in TwapOptions : StartTwap(opts)
    \/ \E opts \in MeanReversionOptions : StartMeanReversion(opts)
    \/ CancelTradingStrategy
    \/ PauseTradingStrategy
    \/ ResumeTradingStrategy
    \/ RemoveTradingStrategy
    \/ TradeTimer
    \/ \E i \in DOMAIN tjobs : TradeUsdcDone(i)
    \/ \E i \in DOMAIN tjobs : TradeBuyDone(i)
    \/ \E i \in DOMAIN tjobs : TradeSellDone(i)
    \/ \E i \in DOMAIN tjobs : TradeNotified(i)
    \/ \E pct \in SellPcts : SellStrategyPosition(pct)
    \/ LiquidateAll
    \/ \E i \in DOMAIN tjobs : LiquidateDone(i)

SpecEval == Init /\ [][NextEval]_vars

\* a TWAP of as many chunks as the log has room for entries
LongTwapOptions ==
    [totalAmount |-> 4 * TRADE_LOG_CAP, durationMs |-> TRADE_LOG_CAP,
     chunks |-> TRADE_LOG_CAP,
     riskLimits |-> [maxPositionUsdc |-> 5000, stopLossPercent |-> 0,
                     maxDrawdownPercent |-> 30]]

\* the TWAP whose k-th chunk has just come due: each chunk was signalled
\* in the tick it came due in, at price 1, and executeBuy refused it because
\* the wallet holds no USDC
LongTwap(k) ==
    LET interval == LongTwapOptions.durationMs \div LongTwapOptions.chunks
        s == Started(TwapState(LongTwapOptions, StartClock - k * interval))
        refused == [type |-> "error", message |-> <<"Insufficient USDC">>]
        all == s.log \o [i \in 1..k |-> refused]
    IN  [s EXCEPT !.params.chunksExecuted = k,
                  !.params.lastChunkTime = StartClock,
                  !.clock = StartClock,
                  !.marked = k,
                  !.last = [NoLast EXCEPT !.price = 1, !.evaluated = TRUE,
                                          !.side = "buy"],
                  !.log = IF Len(all) > TRADE_LOG_CAP
                          THEN SubSeq(all, Len(all) - TRADE_LOG_CAP + 1, Len(all))
                          ELSE all]

\* the process has run such a TWAP for a long time, and the snapshot of the
\* start is on disk
InitLog ==
    /\ up = TRUE
    /\ heap = <<>>
    /\ strategies = <<>>
    /\ loops = <<>>
    /\ block = AuctionStart - 1
    /\ dirty = FALSE
    /\ timer = FALSE
    /\ disk = <<Document(Collectors(<<>>, <<>>))>>
    /\ chain = [a \in AllAddrs |-> 0]
    /\ runs = 0
    /\ crashes = 0
    /\ faults = 0
    /\ saved = Collect(<<>>, <<>>)
    /\ preCrash = <<>>
    /\ pending = 0
    /\ lastSave = "ok"
    /\ exit = NoExit
    /\ eticks = <<>>
    /\ wallet = 0
    /\ esells = <<>>
    /\ trade \in { LongTwap(k) : k \in {TRADE_LOG_CAP - 1, TRADE_LOG_CAP} }
    /\ tjobs = <<>>
    /\ sub = NoSub
    /\ grad = NoGrad
    /\ pol = NoPol
    /\ sched = NoSched

NextLog ==
    \/ CancelTradingStrategy
    \/ PauseTradingStrategy
    \/ ResumeTradingStrategy
    \/ RemoveTradingStrategy
    \/ TradeTimer
    \/ \E i \in DOMAIN tjobs : TradeUsdcDone(i)
    \/ \E i \in DOMAIN tjobs : TradeBuyDone(i)
    \/ \E i \in DOMAIN tjobs : TradeSellDone(i)
    \/ \E i \in DOMAIN tjobs : TradeNotified(i)
    \/ \E pct \in SellPcts : SellStrategyPosition(pct)
    \/ LiquidateAll
    \/ \E i \in DOMAIN tjobs : LiquidateDone(i)

SpecLog == InitLog /\ [][NextLog]_vars

-----------------------------------------------------------------------------
(* bid.ts: one call of submitBid *)

MAX_ALIGNMENT_RETRIES == 5

\* params.maxFdvUsd: the targets the strategy passes to placeBid
SubmitFdvs == {10000, 10500, 12650}

\* auctionInfo.floorPrice and auctionInfo.clearingPrice; 0 stands for a
\* clearing price that is missing, "0" or "None"
FloorPrices == {10000}

ClearingPrices == {0, 11000, 30000}

\* the contract's tick spacing, and the steps of a build-tx answer (the bid
\* alone, or an approval and the bid)
TickSpacings == {1000, 5000}

StepCounts == {1, 2}

\* the build-tx API: the price of the FDV, rounded down to the tick spacing
Align(fdv, spacing) == (fdv \div spacing) * spacing

\* submitBid: referencePrice
ReferencePrice(floorPrice, clearingPrice) ==
    IF clearingPrice # 0 THEN clearingPrice ELSE floorPrice

SubQuiet == UNCHANGED <<bidVars, exitVars, tradeVars, grad, pol, sched>>

SubThrew == sub' = [sub EXCEPT !.pc = "threw"]

\* submitBid is called: up to the await of getSafety
SubmitBid(maxFdvUsd) ==
    /\ sub.pc = "idle"
    /\ sub' = [sub EXCEPT !.pc = "safety", !.maxFdvUsd = maxFdvUsd]
    /\ SubQuiet

\* getSafety answered, or threw
SubSafetyDone ==
    /\ sub.pc = "safety"
    /\ \/ sub' = [sub EXCEPT !.pc = "auction"]
       \/ SubThrew
    /\ SubQuiet

\* getAuction answered, or threw: the reference price, and the first
\* buildBidTx call
SubAuctionDone(floorPrice, clearingPrice, spacing) ==
    /\ sub.pc = "auction"
    /\ \/ sub' = [sub EXCEPT !.pc = "build",
                             !.floorPrice = floorPrice,
                             !.clearingPrice = clearingPrice,
                             !.referencePrice = ReferencePrice(floorPrice, clearingPrice),
                             !.bidFdv = sub.maxFdvUsd,
                             !.spacing = spacing]
       \/ SubThrew
    /\ SubQuiet

\* buildBidTx answered, or threw: the alignment loop up to its next await, or
\* to the first step when it is left
SubBuildDone(steps) ==
    /\ sub.pc = "build"
    /\ LET aligned == Align(sub.bidFdv, sub.spacing)
       IN  \/ IF sub.attempt < MAX_ALIGNMENT_RETRIES /\ ~(aligned > sub.referencePrice)
              THEN sub' = [sub EXCEPT !.aligned = aligned,
                                      !.bidFdv = CeilPct(sub.bidFdv, 115),
                                      !.attempt = @ + 1]
              ELSE sub' = [sub EXCEPT !.aligned = aligned,
                                      !.steps = steps,
                                      !.pc = IF steps > 1 THEN "approve" ELSE "send"]
           \/ SubThrew
    /\ SubQuiet

\* the approval was sent and confirmed, or failed: up to the simulation
SubApproveDone ==
    /\ sub.pc = "approve"
    /\ \/ sub' = [sub EXCEPT !.pc = "simulate"]
       \/ SubThrew
    /\ SubQuiet

\* publicClient.call of the bid returned or threw.  The contract rejects a
\* price that is not above its clearing price, which is never below the one
\* getAuction reported; any other revert is taken for an allowance race and
\* the bid is sent anyway.
SubSimulateDone(clearingNow) ==
    /\ sub.pc = "simulate"
    /\ clearingNow >= sub.clearingPrice
    /\ \/ /\ sub.aligned > ReferencePrice(sub.floorPrice, clearingNow)
          /\ sub' = [sub EXCEPT !.pc = "send"]
       \/ /\ sub.aligned <= ReferencePrice(sub.floorPrice, clearingNow)
          /\ SubThrew
       \/ SubThrew
       \/ sub' = [sub EXCEPT !.pc = "send"]
    /\ SubQuiet

\* walletClient.sendTransaction of the bid resolved, or rejected
SubSendDone ==
    /\ sub.pc = "send"
    /\ \/ sub' = [sub EXCEPT !.pc = "receipt", !.sent = <<sub.aligned>>]
       \/ SubThrew
    /\ SubQuiet

\* waitForTransactionReceipt resolved (confirmed, or reverted), or rejected
SubReceiptDone ==
    /\ sub.pc = "receipt"
    /\ \/ sub' = [sub EXCEPT !.pc = "returned"]
       \/ SubThrew
    /\ SubQuiet

NextSubmit ==
    \/ \E maxFdvUsd \in SubmitFdvs : SubmitBid(maxFdvUsd)
    \/ SubSafetyDone
    \/ \E f \in FloorPrices, c \in ClearingPrices, t \in TickSpacings :
         SubAuctionDone(f, c, t)
    \/ \E n \in StepCounts : SubBuildDone(n)
    \/ SubApproveDone
    \/ \E c \in ClearingPrices : SubSimulateDone(c)
    \/ SubSendDone
    \/ SubReceiptDone

SpecSubmit == Init /\ [][NextSubmit]_vars

-----------------------------------------------------------------------------
(* The graduation monitor, for one auction whose bid strategy has an exit   *)
(* profile                                                                  *)

MaxGradInFlight == 2
MaxGradFaults == 1
MaxApiStarts == 1

\* computeEntryFdv(launch): 0 when the launch carries no clearing price
GradEntryFdvs == {0, 30000}

GradQuiet == UNCHANGED <<bidVars, exitVars, tradeVars, sub, pol, sched>>

\* the sequence without its i-th element
Without(seq, i) == SubSeq(seq, 1, i - 1) \o SubSeq(seq, i + 1, Len(seq))

\* runExitStrategy is called: exitStrategies.set, and the loop starts
ExitStarted(g, by) ==
    [g EXCEPT !.started = Append(@, [by |-> by, existing |-> g.hasExit]),
              !.hasExit = TRUE]

\* the launch graduates
LaunchGraduates(entryFdv) ==
    /\ ~grad.isGraduated
    /\ grad' = [grad EXCEPT !.isGraduated = TRUE, !.entryFdv = entryFdv]
    /\ GradQuiet

\* the tokens of the bid arrive in the wallet
TokensClaimed ==
    /\ grad.tokenBalance = 0
    /\ grad' = [grad EXCEPT !.tokenBalance = 100]
    /\ GradQuiet

\* the monitor's interval fires: checkGraduations up to its await of
\* getLaunches.  With the auction in processedGraduations it returns at once.
GradTimer ==
    /\ Len(grad.polls) < MaxGradInFlight
    /\ ~grad.processed
    /\ grad' = [grad EXCEPT !.polls = Append(@, "launches")]
    /\ GradQuiet

\* getLaunches answered, or threw: the loop body up to the await of balanceOf
\* in startExitFromGraduation
GradLaunchesDone(i) ==
    /\ i \in DOMAIN grad.polls /\ grad.polls[i] = "launches"
    /\ \/ /\ grad.faults < MaxGradFaults
          /\ grad' = [grad EXCEPT !.faults = @ + 1, !.polls = Without(@, i)]
       \/ grad' = IF ~grad.isGraduated
                  THEN [grad EXCEPT !.polls = Without(@, i)]
                  ELSE IF grad.hasExit
                  THEN [grad EXCEPT !.processed = TRUE, !.polls = Without(@, i)]
                  ELSE [grad EXCEPT !.processed = TRUE, !.polls[i] = "balance"]
    /\ GradQuiet

\* balanceOf answered, or threw into the catch of checkGraduations: the rest
\* of startExitFromGraduation
GradBalanceDone(i) ==
    /\ i \in DOMAIN grad.polls /\ grad.polls[i] = "balance"
    /\ \/ /\ grad.faults < MaxGradFaults
          /\ grad' = [grad EXCEPT !.faults = @ + 1, !.polls = Without(@, i)]
       \/ LET g == [grad EXCEPT !.polls = Without(@, i)]
          IN  grad' = IF grad.tokenBalance = 0 THEN g
                      ELSE IF grad.entryFdv <= 0 THEN g
                      ELSE ExitStarted(g, "monitor")
    /\ GradQuiet

\* POST /api/exit-strategy, when it answers started
ApiExitStrategy ==
    /\ Cardinality({ k \in DOMAIN grad.started : grad.started[k].by = "api" })
          < MaxApiStarts
    /\ grad.tokenBalance > 0
    /\ grad.entryFdv > 0
    /\ grad' = ExitStarted(grad, "api")
    /\ GradQuiet

NextGrad ==
    \/ \E entryFdv \in GradEntryFdvs : LaunchGraduates(entryFdv)
    \/ TokensClaimed
    \/ GradTimer
    \/ \E i \in DOMAIN grad.polls : GradLaunchesDone(i)
    \/ \E i \in DOMAIN grad.polls : GradBalanceDone(i)
    \/ ApiExitStrategy

SpecGrad == Init /\ [][NextGrad]_vars

\* the interval keeps firing, and every awaited call settles
SpecGradFair ==
    /\ SpecGrad
    /\ WF_vars(GradTimer)
    /\ WF_vars(\E i \in DOMAIN grad.polls : GradLaunchesDone(i))
    /\ WF_vars(\E i \in DOMAIN grad.polls : GradBalanceDone(i))

-----------------------------------------------------------------------------
(* The trading engine's strategies on one token and the token's price poller *)

\* the status of a strategy in the restored snapshot; none where the
\* snapshot has no such strategy
PolStatuses == {"none", "running", "paused", "done"}

PolQuiet == UNCHANGED <<bidVars, exitVars, tradeVars, sub, grad, sched>>

\* startStrategyLoop of strategy i: startTracking, then the interval
PolStartLoop(p, i) == [StartTracking(p) EXCEPT !.s[i].timer = TRUE]

\* stopStrategyLoop of strategy i: clearInterval, then stopTracking when the
\* strategy is in the Map
PolStopLoop(p, i) ==
    LET t == [p EXCEPT !.s[i].timer = FALSE]
    IN  IF p.s[i].inMap THEN StopTracking(t) ELSE t

\* setTradingStrategies on strategy i of the snapshot, then what
\* resumeTradingStrategies does for it
PolRestored(p, i, status) ==
    LET q == [p EXCEPT !.s[i].status = status, !.s[i].inMap = status # "none"]
    IN  IF status = "running" THEN PolStartLoop(q, i) ELSE q

\* boot: setTradingStrategies(states) and resumeTradingStrategies
PolRestore(st) ==
    /\ ~pol.booted
    /\ pol' = [PolRestored(PolRestored(pol, 1, st[1]), 2, st[2])
               EXCEPT !.booted = TRUE]
    /\ PolQuiet

\* runTradingStrategy with a new strategy on the token
PolCreate(i) ==
    /\ pol.booted
    /\ pol.s[i].status = "none"
    /\ pol' = PolStartLoop(
                  StartTracking([pol EXCEPT !.s[i].status = "running",
                                            !.s[i].inMap = TRUE]), i)
    /\ PolQuiet

PolPause(i) ==
    /\ pol.s[i].inMap /\ pol.s[i].status = "running"
    /\ pol' = [pol EXCEPT !.s[i].status = "paused"]
    /\ PolQuiet

PolResume(i) ==
    /\ pol.s[i].inMap /\ CanResume(pol.s[i].status)
    /\ pol' = [pol EXCEPT !.s[i].status = "running"]
    /\ PolQuiet

PolCancel(i) ==
    /\ pol.s[i].inMap /\ pol.s[i].status \in {"running", "paused"}
    /\ pol' = PolStopLoop([pol EXCEPT !.s[i].status = "done"], i)
    /\ PolQuiet

PolRemove(i) ==
    /\ pol.s[i].inMap
    /\ pol' = [(IF pol.s[i].status \in {"running", "paused"}
                THEN PolStopLoop(pol, i) ELSE pol)
               EXCEPT !.s[i].inMap = FALSE]
    /\ PolQuiet

\* the interval of strategy i fires on a running strategy, and the tick ends
\* it (stop-loss, the evaluator) or pauses it (drawdown)
PolTick(i, status) ==
    /\ pol.s[i].timer /\ pol.s[i].status = "running"
    /\ pol' = [pol EXCEPT !.s[i].status = status]
    /\ PolQuiet

\* the interval of strategy i fires on a strategy that is neither running
\* nor paused
PolTimerStop(i) ==
    /\ pol.s[i].timer /\ pol.s[i].status \notin {"running", "paused"}
    /\ pol' = PolStopLoop(pol, i)
    /\ PolQuiet

NextPoller ==
    \/ \E st \in [1..2 -> PolStatuses] : PolRestore(st)
    \/ \E i \in 1..2 : PolCreate(i)
    \/ \E i \in 1..2 : PolPause(i)
    \/ \E i \in 1..2 : PolResume(i)
    \/ \E i \in 1..2 : PolCancel(i)
    \/ \E i \in 1..2 : PolRemove(i)
    \/ \E i \in 1..2, status \in {"done", "paused"} : PolTick(i, status)
    \/ \E i \in 1..2 : PolTimerStop(i)

SpecPoller == Init /\ [][NextPoller]_vars

-----------------------------------------------------------------------------
(* readiness.ts: one call of scheduleBid *)

MaxSchedPolls == 2
MaxHeight == 4

\* auction.startBlock; 0 when the auction has none
StartBlocks == {0, 2, 3}

SchedQuiet == UNCHANGED <<bidVars, exitVars, tradeVars, sub, grad, pol>>

\* scheduleBid is called: up to the await of getAuction
ScheduleBid ==
    /\ sched.pc = "idle"
    /\ sched' = [sched EXCEPT !.pc = "auction"]
    /\ SchedQuiet

\* getAuction answered, or threw
SchedAuctionDone(startBlock) ==
    /\ sched.pc = "auction"
    /\ \/ sched' = IF startBlock = 0
                   THEN [sched EXCEPT !.pc = "threw"]
                   ELSE [sched EXCEPT !.pc = "block", !.startBlock = startBlock]
       \/ sched' = [sched EXCEPT !.pc = "threw"]
    /\ SchedQuiet

\* the first getCurrentBlock answered, or threw: submitBid at once, or the
\* interval is set
SchedBlockDone ==
    /\ sched.pc = "block"
    /\ \/ sched' = IF sched.height >= sched.startBlock
                   THEN [sched EXCEPT !.pc = "submit", !.submits = @ + 1]
                   ELSE [sched EXCEPT !.pc = "polling", !.interval = TRUE]
       \/ sched' = [sched EXCEPT !.pc = "threw"]
    /\ SchedQuiet

\* submitBid of the immediate path settled
SchedSubmitDone ==
    /\ sched.pc = "submit"
    /\ \E pc \in {"returned", "threw"} : sched' = [sched EXCEPT !.pc = pc]
    /\ SchedQuiet

\* the interval fires: the callback up to its await of getCurrentBlock
SchedTimer ==
    /\ sched.interval
    /\ Len(sched.polls) < MaxSchedPolls
    /\ sched' = [sched EXCEPT !.polls = Append(@, "block")]
    /\ SchedQuiet

\* getCurrentBlock of a callback answered, or threw into Poll error
SchedPollDone(i) ==
    /\ i \in DOMAIN sched.polls /\ sched.polls[i] = "block"
    /\ \/ sched' = IF sched.startBlock - sched.height <= 0
                   THEN [sched EXCEPT !.interval = FALSE, !.polls[i] = "submit",
                                      !.submits = @ + 1]
                   ELSE [sched EXCEPT !.polls = Without(@, i)]
       \/ sched' = [sched EXCEPT !.polls = Without(@, i)]
    /\ SchedQuiet

\* submitBid of a callback settled: resolve or reject, which settles the
\* promise of scheduleBid the first time only
SchedPollSubmitDone(i) ==
    /\ i \in DOMAIN sched.polls /\ sched.polls[i] = "submit"
    /\ \E pc \in {"returned", "threw"} :
         sched' = [sched EXCEPT !.polls = Without(@, i),
                                !.pc = IF @ = "polling" THEN pc ELSE @]
    /\ SchedQuiet

\* the chain produces a block
SchedBlockMined ==
    /\ sched.height < MaxHeight
    /\ sched' = [sched EXCEPT !.height = @ + 1]
    /\ SchedQuiet

NextSched ==
    \/ ScheduleBid
    \/ \E b \in StartBlocks : SchedAuctionDone(b)
    \/ SchedBlockDone
    \/ SchedSubmitDone
    \/ SchedTimer
    \/ \E i \in DOMAIN sched.polls : SchedPollDone(i)
    \/ \E i \in DOMAIN sched.polls : SchedPollSubmitDone(i)
    \/ SchedBlockMined

SpecSched == Init /\ [][NextSched]_vars

-----------------------------------------------------------------------------
(* Properties *)

Live == {"waiting", "watching", "bidding"}

Terminal == {"done", "failed"}

Rank(status) ==
    CASE status = "waiting"  -> 0
      [] status = "watching" -> 1
      [] status = "bidding"  -> 2
      [] OTHER -> 3

\* what boot would restore from the document as it is now
OnDisk == Section(LoadState(disk), "Bid Strategies")

\* C1: crash durability.  When the process has crashed, the document holds,
\* for every bid strategy the process had with a confirmed bid, a strategy of
\* that auction with at least as many confirmed bids.
C1_CrashKeepsConfirmedBids ==
    ~up =>
        \A k \in DOMAIN preCrash :
            preCrash[k].bidsPlaced > 0 =>
                /\ OnDisk # <<>>
                /\ \E j \in DOMAIN OnDisk[1] :
                      /\ OnDisk[1][j].auctionAddress = preCrash[k].auctionAddress
                      /\ OnDisk[1][j].bidsPlaced >= preCrash[k].bidsPlaced

\* C2: re-arm on restore.  While the process is up, every bid strategy in
\* memory whose status is waiting, watching or bidding has a run loop.
C2_LiveStrategiesAreArmed ==
    up => \A i \in DOMAIN heap : heap[i].status \in Live => Running(loops[i])

\* C3: snapshot round trip.  loadState applied to the document saveState
\* wrote returns, under the section "Bid Strategies", what the collector
\* returned when the document was written.
C3_SnapshotRoundTrip ==
    disk # <<>> => OnDisk = <<saved>>

\* C4: bid status is monotonic.  No step moves a strategy's status backwards
\* along waiting, watching, bidding, {done, failed}, and no step changes a
\* status that is done or failed.
C4_BidStatusMonotonic ==
    [][\A i \in DOMAIN heap :
          i \in DOMAIN heap' =>
              /\ Rank(heap'[i].status) >= Rank(heap[i].status)
              /\ heap[i].status \in Terminal => heap'[i].status = heap[i].status]_vars

\* C5: cooperative cancellation.  Once the run loop has passed a tick
\* boundary after cancelStrategy returned true, the loop has stopped, the
\* status is done and no bid was submitted after that boundary.
C5_CancelStopsLoop ==
    \A i \in DOMAIN loops :
        loops[i].cancelSeen = "boundary" =>
            /\ heap[i].status = "done"
            /\ loops[i].pc = "ended"
            /\ ~loops[i].lateBid

\* C6: at most one confirmed bid per strategy.  bidsPlaced is 0 or 1; once a
\* bid is confirmed the status is done, the loop is over, and the confirmed
\* call of placeBid is the last one.
C6_AtMostOneConfirmedBid ==
    \A i \in DOMAIN loops :
        /\ heap[i].bidsPlaced \in {0, 1}
        /\ \A k \in DOMAIN loops[i].calls :
              loops[i].calls[k].outcome = "ok" =>
                  /\ k = Len(loops[i].calls)
                  /\ heap[i].bidsPlaced = 1
        /\ heap[i].bidsPlaced = 1 =>
              /\ heap[i].status = "done"
              /\ loops[i].pc = "ended"

C6_Witness ==
    \E i \in DOMAIN loops :
        /\ heap[i].bidsPlaced = 1
        /\ Len(loops[i].calls) = 2
        /\ loops[i].calls[1].outcome = "tooLow"

\* C7: retry price bump.  When an attempt at target T is rejected as price
\* too low, the next attempt's target is ceil(T x 1.20) capped at maxFdvUsd.
C7_RetryPriceBump ==
    \A i \in DOMAIN loops :
        \A k \in DOMAIN loops[i].calls :
            (k + 1 \in DOMAIN loops[i].calls /\ loops[i].calls[k].outcome = "tooLow") =>
                loops[i].calls[k + 1].target =
                    Min(CeilPct(loops[i].calls[k].target, 120), heap[i].maxFdvUsd)

\* C8: ceiling on the target.  Every target FDV passed to placeBid is at
\* most the strategy's maxFdvUsd.
C8_TargetWithinCeiling ==
    \A i \in DOMAIN loops :
        \A k \in DOMAIN loops[i].calls :
            loops[i].calls[k].target <= heap[i].maxFdvUsd

\* C9: bounded bidding.  The bidding loop runs at most maxBidAttempts (2)
\* iterations and calls placeBid at most that often; a strategy that entered
\* bidding is never failed, and is done when its loop is over.
C9_BoundedBidding ==
    \A i \in DOMAIN loops :
        /\ loops[i].iters <= MAX_BID_ATTEMPTS
        /\ loops[i].bidAttempts <= MAX_BID_ATTEMPTS
        /\ Len(loops[i].calls) <= MAX_BID_ATTEMPTS
        /\ loops[i].entered # <<>> =>
              /\ heap[i].status # "failed"
              /\ loops[i].pc # "threw"
              /\ loops[i].pc = "ended" => heap[i].status = "done"

C9_Witness ==
    \E i \in DOMAIN loops :
        /\ loops[i].pc = "ended"
        /\ Len(loops[i].calls) = MAX_BID_ATTEMPTS
        /\ \A k \in DOMAIN loops[i].calls : loops[i].calls[k].outcome # "ok"
        /\ heap[i].bidsPlaced = 0
        /\ heap[i].status = "done"

\* C10: no early bid.  placeBid is called only after the status became
\* bidding; the status becomes bidding only in a poll that observed a block
\* below endBlock and at most 15 blocks before it; a strategy that saw the end
\* block while watching is done, its loop over, without a bid.
C10_NoEarlyBid ==
    \A i \in DOMAIN loops :
        /\ loops[i].calls # <<>> => loops[i].entered # <<>>
        /\ heap[i].status = "bidding" => loops[i].entered # <<>>
        /\ loops[i].entered # <<>> =>
              /\ loops[i].entered[1] < loops[i].endBlock
              /\ loops[i].endBlock - loops[i].entered[1] <= 15
        /\ loops[i].endedWatching =>
              /\ loops[i].calls = <<>>
              /\ heap[i].status = "done"
              /\ loops[i].pc = "ended"

C10_Witness ==
    \E i \in DOMAIN loops :
        /\ loops[i].entered = <<AuctionEnd - BID_WINDOW>>
        /\ loops[i].calls # <<>>
        /\ heap[i].impliedFdv > 0

\* C11: each tranche sells at most once.  At most one confirmed swap was
\* started on behalf of any tranche, and no step takes a tranche that is
\* executed or skipped back to pending.
C11_TrancheSellsOnce ==
    /\ [](\A k \in DOMAIN exit.tranches :
            Cardinality({ j \in DOMAIN esells :
                            esells[j].k = k /\ esells[j].outcome = "ok" }) <= 1)
    /\ [][\A k \in DOMAIN exit.tranches :
            (k \in DOMAIN exit'.tranches /\ exit.tranches[k].status # "pending") =>
                exit'.tranches[k].status # "pending"]_vars

\* C12: exit stop-loss.  Once a callback that observed a multiple below the
\* configured stop-loss multiple has run, the strategy is stopped and no
\* tranche is pending.
C12_StopLossStops ==
    exit.belowStop =>
        /\ exit.status = "stopped"
        /\ \A k \in DOMAIN exit.tranches : exit.tranches[k].status # "pending"

\* C13: tranche trigger guard.  Every swap was started by a callback whose
\* own reading of the price gave a multiple of at least the tranche's
\* targetMultiple, and with entryFdv <= 0 no swap is ever started.
C13_TriggerGuard ==
    /\ \A j \in DOMAIN esells : esells[j].seen >= esells[j].target
    /\ exit.entryFdv <= 0 => esells = <<>>

\* C14: tranche order.  No swap is started for a tranche while an earlier
\* tranche that the same callback found triggered is still pending.
C14_TrancheOrder ==
    \A j \in DOMAIN esells : ~esells[j].skipped

\* C15: tranche sell amount.  The amount of every swap is
\* floor(balance x pctToSell / 100) of the balance its callback last read
\* from the chain, and that read came after the callback's last sell.
C15_SellAmount ==
    \A j \in DOMAIN esells :
        /\ esells[j].amount = (esells[j].bal * esells[j].pct) \div 100
        /\ ~esells[j].stale

\* C16: failed tranche sell.  A step in which a swap throws leaves its
\* tranche's status and totalUsdcRealized as they were, and the strategy's
\* status too when the tranche is pending; an executed tranche has a
\* confirmed swap.
C16_FailedSellStaysPending ==
    /\ [](\A k \in DOMAIN exit.tranches :
            exit.tranches[k].status = "executed" =>
                \E j \in DOMAIN esells : esells[j].k = k /\ esells[j].outcome = "ok")
    /\ [][\A j \in DOMAIN esells :
            (esells[j].outcome = "pending" /\ esells'[j].outcome = "failed") =>
                /\ exit'.tranches[esells[j].k].status = exit.tranches[esells[j].k].status
                /\ exit'.totalUsdcRealized = exit.totalUsdcRealized
                /\ exit.tranches[esells[j].k].status = "pending" =>
                      exit'.status = exit.status]_vars

C16_Witness ==
    \E a, b \in DOMAIN esells :
        /\ esells[a].k = esells[b].k
        /\ esells[a].tick < esells[b].tick
        /\ esells[a].outcome = "failed"
        /\ esells[b].outcome = "ok"
        /\ exit.status = "running"

\* C17: ticks of one instance are serialized.  Of one exit strategy, and of
\* one trading strategy, at most one interval callback is between its start
\* and its return at any time.
C17_TicksSerialized ==
    /\ Cardinality({ i \in DOMAIN eticks : InFlight(eticks[i]) }) <= 1
    /\ Cardinality({ i \in Ticks : JobInFlight(tjobs[i]) }) <= 1

\* the tokens of the trades of one side
RECURSIVE TokensTraded(_, _)
TokensTraded(trades, side) ==
    IF trades = <<>> THEN 0
    ELSE (IF Head(trades).side = side THEN Head(trades).amountToken ELSE 0)
         + TokensTraded(Tail(trades), side)

\* the latest tick found price < avgEntryPrice x (1 - stopLossPercent / 100)
\* on a position it could sell
LastBelowStop ==
    /\ trade.last.tokenBalance > 0
    /\ trade.last.avgEntryPrice[1] > 0
    /\ trade.riskLimits.stopLossPercent > 0
    /\ trade.last.price * trade.last.avgEntryPrice[2] * 100
         < trade.last.avgEntryPrice[1] * (100 - trade.riskLimits.stopLossPercent)

\* the latest tick found a loss of more than maxDrawdownPercent of
\* totalInvested
LastDrawdown ==
    /\ trade.riskLimits.maxDrawdownPercent > 0
    /\ trade.last.totalInvested > 0
    /\ -(trade.last.realized[1] + trade.last.unrealized * trade.last.realized[2]) * 100
         > trade.riskLimits.maxDrawdownPercent * trade.last.totalInvested
             * trade.last.realized[2]

\* C18: risk checks come first.  A tick that finds the stop-loss condition
\* fires the stop-loss, also when the drawdown condition holds as well; a
\* tick that finds only the drawdown condition fires the drawdown; a tick in
\* which either fires does not invoke the evaluator, and every trade an
\* evaluator signalled comes from a tick in which neither fired.
C18_RiskChecksFirst ==
    /\ trade.last.price # NoPrice =>
         /\ LastBelowStop => trade.last.fired = "stop-loss"
         /\ (~LastBelowStop /\ LastDrawdown) => trade.last.fired = "drawdown"
         /\ (~LastBelowStop /\ ~LastDrawdown) => trade.last.fired = "none"
         /\ trade.last.fired # "none" =>
              ~trade.last.evaluated /\ trade.last.side = "none"
    /\ \A i \in DOMAIN tjobs :
         tjobs[i].reason = "signal" => tjobs[i].risk = "none"

C18_Witness ==
    /\ trade.last.price # NoPrice
    /\ LastBelowStop
    /\ LastDrawdown
    /\ trade.last.fired = "stop-loss"
    /\ \E i \in Ticks : tjobs[i].reason = "stop-loss"

\* C19: trading stop-loss outcome.  A strategy whose status became done
\* through the stop-loss holds a token balance of 0, and no evaluator was
\* invoked for it afterwards.
C19_StopLossSellsAll ==
    trade.byStopLoss =>
        /\ trade.position.tokenBalance = 0
        /\ ~trade.evalAfterStop

\* C20: non-negative position.  position.tokenBalance is never below 0.
C20_NonNegativeBalance ==
    trade.position.tokenBalance >= 0

C20_Witness ==
    /\ TokensTraded(trade.trades, "sell") > TokensTraded(trade.trades, "buy")
    /\ trade.position.tokenBalance = 0

\* the buy trades recorded in state.trades
BuysExecuted ==
    Cardinality({ k \in DOMAIN trade.trades : trade.trades[k].side = "buy" })

\* the ticks whose signalled buy is still in executeBuy, before its swap
\* returned
BuysInFlight ==
    Cardinality({ i \in Ticks : /\ tjobs[i].side = "buy"
                                /\ tjobs[i].pc \in {"usdc", "swap"} })

\* C21: a buy signal that does not end in a trade (the swap or the balance
\* read throws, the wallet holds too little USDC, the position cap
\* suppresses it) leaves nothing in params that records it as taken: every
\* buy the evaluators have recorded (lastBuyTime, chunksExecuted,
\* lastTradeTime) is a buy that was executed or is still being executed.
C21_UntakenBuyNotRecorded == trade.marked = BuysExecuted + BuysInFlight

\* C22: chunksExecuted of a TWAP is the number of buys executed (or still
\* being executed), and twapEvaluate sets the status to done only after
\* exactly chunks buys were executed and recorded.
C22_TwapCountsExecutedBuys ==
    trade.type = "twap" =>
        /\ trade.params.chunksExecuted = BuysExecuted + BuysInFlight
        /\ trade.doneByEvaluator => BuysExecuted = trade.params.chunks

\* the DCA strategy has a budget
Budgeted == trade.type = "dca" /\ trade.params.totalBudget > 0

\* C23: a DCA with a budget never has more than totalBudget invested, its
\* evaluator gives no signal once totalInvested has reached the budget, and
\* such an evaluation leaves the status alone.
C23_DcaWithinBudget ==
    /\ [](Budgeted => trade.position.totalInvested <= trade.params.totalBudget)
    /\ []((Budgeted /\ trade.last.evaluated
              /\ trade.last.totalInvested >= trade.params.totalBudget)
            => trade.last.side = "none")
    /\ [][(/\ Budgeted
            /\ Len(tjobs') = Len(tjobs) + 1
            /\ tjobs'[Len(tjobs')].kind = "tick"
            /\ trade'.last.evaluated
            /\ trade'.last.totalInvested >= trade.params.totalBudget)
           => trade'.status = trade.status]_vars

\* C24: a buy the evaluator signalled spends at most 500 USDC, and a sell it
\* signalled offers at most 500 USDC worth of tokens at the current price
\* and at most the strategy's token balance.
C24_TradeSizeCapped ==
    [][(/\ Len(tjobs') = Len(tjobs) + 1
        /\ tjobs'[Len(tjobs')].kind = "tick"
        /\ tjobs'[Len(tjobs')].reason = "signal")
       => LET j == tjobs'[Len(tjobs')]
          IN  /\ j.side = "buy" => j.amount <= MAX_SINGLE_TRADE_USDC
              /\ j.side = "sell" =>
                    /\ j.amount * j.price <= MAX_SINGLE_TRADE_USDC
                    /\ j.amount <= trade.position.tokenBalance]_vars

\* a buy and a sell that the cap cut down to 500 USDC
C24_Witness ==
    /\ \E i \in Ticks : /\ tjobs[i].reason = "signal" /\ tjobs[i].side = "buy"
                         /\ tjobs[i].amount = MAX_SINGLE_TRADE_USDC
                         /\ tjobs[i].pc = "ended"
    /\ \E i \in Ticks : /\ tjobs[i].reason = "signal" /\ tjobs[i].side = "sell"
                         /\ tjobs[i].amount * tjobs[i].price = MAX_SINGLE_TRADE_USDC
                         /\ tjobs[i].amount < trade.last.tokenBalance

\* C25: debounced snapshot.  At most one debounce timer is pending, and one
\* is pending whenever the dirty flag is set; a saveState that writes, writes
\* what the collectors return at that moment; and once the store is dirty it
\* does not stay dirty for ever: the timer fires and saveState runs.
C25_DebouncedSnapshot ==
    /\ [](pending <= 1 /\ (dirty => timer) /\ (timer <=> pending = 1))
    /\ [][(dirty /\ ~dirty' /\ up') =>
            \/ lastSave' = "failed" /\ disk' = disk
            \/ /\ lastSave' = "ok"
               /\ disk' = <<Document(Collectors(strategies, heap))>>]_vars
    /\ (dirty ~> ~dirty)

C25_Witness ==
    /\ up
    /\ lastSave = "ok"
    /\ saved # <<>>
    /\ Len(saved[1].log) >= 2
    /\ saved = Collect(strategies, heap)
    /\ ~dirty /\ pending = 0

\* C26: snapshot write failure is retried.  After a saveState whose write
\* failed, the store is dirty and a debounce timer is pending.
C26_FailedSaveRetried ==
    (up /\ lastSave = "failed") => (dirty /\ timer)

\* C27: the poller of a token has as many references as there are strategy
\* loops armed on the token, so that it is gone (no entry, no interval) once
\* every strategy on the token is stopped.
C27_PollerRefCount == trade.refCount = (IF trade.timer THEN 1 ELSE 0)

\* the run loops on auction a that can still bid
ActiveLoops(a) ==
    { i \in DOMAIN loops : /\ Running(loops[i])
                           /\ heap[i].status \in Live
                           /\ heap[i].auctionAddress = a }

\* C28: an auction has at most one run loop that can bid, and the state that
\* loop works on is the one getStrategy and cancelStrategy find in the Map.
C28_OneLoopPerAuction ==
    \A a \in AllAddrs :
        /\ Cardinality(ActiveLoops(a)) <= 1
        /\ \A i \in ActiveLoops(a) :
              LET k == KeyIndex(strategies, heap, a)
              IN  k # 0 /\ strategies[k] = i

\* C29: when an exception escapes a run loop, the loop's strategy is failed
\* and the store is marked dirty, and the state and the loop of every other
\* strategy are as they were.
C29_FatalErrorContained ==
    [][\A i \in DOMAIN loops :
         (loops[i].pc # "threw" /\ loops'[i].pc = "threw")
         => /\ heap'[i].status = "failed"
            /\ dirty'
            /\ \A k \in DOMAIN loops \ {i} :
                  heap'[k] = heap[k] /\ loops'[k] = loops[k]]_vars

\* one strategy has failed and the loop of another auction's strategy is
\* still running
C29_Witness ==
    \E i, k \in DOMAIN loops :
        /\ loops[i].pc = "threw" /\ heap[i].status = "failed"
        /\ heap[k].auctionAddress # heap[i].auctionAddress
        /\ Running(loops[k]) /\ heap[k].status \in Live
        /\ Len(heap[k].log) >= 2

\* C30: the log of a trading strategy never holds more than 100 entries, and
\* the log of a bid strategy or of an exit strategy never more than 50.
C30_LogsBounded ==
    /\ Len(trade.log) <= TRADE_LOG_CAP
    /\ \A i \in DOMAIN heap : Len(heap[i].log) <= LOG_CAP
    /\ Len(exit.log) <= LOG_CAP

\* C32: ceiling on the encoded FDV.  The FDV of a confirmed bid (submitBid's
\* actualFdv, stored as lastBidFdv) is at most the strategy's maxFdvUsd; it
\* is stated here for the bids whose target was within the ceiling, so that
\* only the tick-alignment bumps of submitBid can break it.
C32_BidFdvWithinCeiling ==
    \A i \in DOMAIN loops :
        \A k \in DOMAIN loops[i].calls :
            (/\ loops[i].calls[k].outcome = "ok"
             /\ loops[i].calls[k].target <= heap[i].maxFdvUsd
             /\ heap[i].lastBidFdv # <<>>)
                => heap[i].lastBidFdv[1] <= heap[i].maxFdvUsd

\* C33: one accepted bid per strategy.  The auction contract accepts at most
\* one bid transaction of a bid strategy, also when a transaction was sent
\* and the wait for its receipt threw.  (One strategy is started here, so the
\* bids an auction has accepted are that strategy's.)
C33_OneAcceptedBid ==
    \A a \in AllAddrs : chain[a] <= 1

\* C36: exit cancellation is final.  Once cancelExitStrategy has set the
\* status to cancelled, no step changes the status again.
C36_CancelIsFinal ==
    [][exit.status = "cancelled" => exit'.status = "cancelled"]_vars

\* C40: a manual sell reports the truth.  When the swap of a
\* sellStrategyPosition call fails, the call leaves the status, the tick loop
\* and the position as they were.
C40_FailedManualSellChangesNothing ==
    [][\A i \in DOMAIN tjobs :
          (/\ tjobs[i].kind = "sell"
           /\ tjobs[i].pc = "swap"
           /\ i \in DOMAIN tjobs'
           /\ tjobs'[i].pc = "ended")
              => /\ trade'.status = trade.status
                 /\ trade'.timer = trade.timer
                 /\ trade'.position = trade.position]_vars

\* C37: trading status machine.  The status of a strategy changes only from
\* running to paused, from paused to running and from running or paused to
\* done (and to running when the strategy is created); done is never left,
\* and once the status is done no tick is started, so the evaluator is not
\* invoked and no trade is started by a tick.
C37_StatusMachine ==
    [][/\ trade'.status # trade.status =>
             <<trade.status, trade'.status>> \in
                 { <<"none", "running">>, <<"running", "paused">>,
                   <<"paused", "running">>, <<"running", "done">>,
                   <<"paused", "done">> }
       /\ trade.status = "done" =>
             /\ Ticks' = Ticks
             /\ trade'.last = trade.last
             /\ trade'.params = trade.params]_vars

\* a TWAP that its evaluator set to done, whose interval then fired once
\* more and was cleared, with no call of the API
C37_Witness ==
    /\ trade.status = "done"
    /\ trade.doneByEvaluator
    /\ trade.calls = 0
    /\ ~trade.timer

\* C31: the alignment check of submitBid.  The bid transaction is sent only
\* when the aligned price of the transaction that was built is strictly above
\* the reference price (the clearing price when there is one, else the floor
\* price), and the FDV is bumped at most MAX_ALIGNMENT_RETRIES times.
C31_SentOnlyAboveReference ==
    /\ sub.attempt <= MAX_ALIGNMENT_RETRIES
    /\ sub.sent # <<>> => sub.sent[1] > sub.referencePrice

\* the calls of runExitStrategy the graduation monitor has made
MonitorStarts == { k \in DOMAIN grad.started : grad.started[k].by = "monitor" }

\* C34: one exit loop per graduation.  The graduation monitor calls
\* runExitStrategy at most once for an auction, and never when the auction
\* has an exit strategy already (started by the API or by the monitor).
C34_OneExitLoopPerGraduation ==
    /\ Cardinality(MonitorStarts) <= 1
    /\ \A k \in MonitorStarts : ~grad.started[k].existing

\* C35: a failed start is retried.  Once the launch is graduated, its entry
\* FDV can be computed and the wallet holds tokens, an exit strategy is
\* eventually started.
C35_ExitEventuallyStarted ==
    (grad.isGraduated /\ grad.entryFdv > 0 /\ grad.tokenBalance > 0)
        ~> (grad.started # <<>>)

\* C38: the poller outlives its users.  While a running strategy with an
\* armed tick loop is on the token, the token's price poller exists.
C38_PollerOutlivesLoops ==
    \A i \in 1..2 :
        (pol.s[i].status = "running" /\ pol.s[i].timer) => pol.refCount > 0

\* C39: scheduleBid bids once.  One call of scheduleBid calls submitBid at
\* most once, also when several poll callbacks are in flight.
C39_ScheduledBidOnce ==
    sched.submits <= 1

====
